---- MODULE Spec2Model ----
(***************************************************************************)
(* A model of the USSD layer of africastalking-rs:                         *)
(*   - UssdRequest's navigation helpers      (src/src/modules/ussd.rs)     *)
(*   - UssdResponse, its Display, UssdMenu   (src/src/modules/ussd.rs)     *)
(*   - NetworkCode::from_code/name/country   (src/src/modules/ussd.rs)     *)
(*   - the stateful money-transfer handler                                 *)
(*                         (src/references/ussd/stateful_example.rs)       *)
(*                                                                         *)
(* Strings.  A Rust string that the code inspects character by character   *)
(* (the request text, a message handed to UssdResponse, a menu key) is a   *)
(* sequence of one-character strings: "1*2" is <<"1", "*", "2">> and the   *)
(* empty string is <<>>.  A string literal of the program that is only     *)
(* ever copied (a prompt) is one element of such a sequence, so that       *)
(* concatenation and formatting keep their meaning.  Option<T> is a        *)
(* sequence of length 0 (None) or 1 (Some(v)): Some("") is << <<>> >>.     *)
(***************************************************************************)
EXTENDS Integers, Sequences, FiniteSets, TLC

VARIABLES
    \* --- UssdRequest navigation helpers
    text,        \* UssdRequest.text of the request under inspection
    pattern,     \* the &str argument of matches_path / starts_with_path
    nav,         \* the value each helper returned, once it has been called
    \* --- UssdResponse / UssdMenu
    menu,        \* the UssdMenu under construction (Option)
    response,    \* the UssdResponse last constructed (Option)
    ctor,        \* how `response` was constructed, and from which arguments
    rendered,    \* response.to_string(), once Display has run (Option)
    \* --- NetworkCode
    code,        \* the &str handed to NetworkCode::from_code
    network,     \* the NetworkCode it returned (Option)
    netinfo,     \* name() and country() of `network`, once asked for
    \* --- the stateful handler
    sessions,    \* AppState.sessions: session_id -> Option<SessionData>
    last,        \* the interaction handled last: what it read, did and returned
    \* --- one USSD session as the gateway drives it
    dialog,      \* the texts it has posted and the replies it has got
    \* --- the stateless router of examples/ussd_with_axum.rs
    router,      \* the request's phone number and what handle_ussd made of it
    \* --- AfricasTalkingClient::request
    client,      \* one call of request: its attempts, its waits, its result
    \* --- calls of the stateful handler that overlap
    tasks        \* the calls in flight: where each is and what it holds

navVars == <<text, pattern, nav>>
respVars == <<menu, response, ctor, rendered>>
netVars == <<code, network, netinfo>>
flowVars == <<sessions, last>>
vars ==
    <<text, pattern, nav, menu, response, ctor, rendered, code, network, netinfo,
      sessions, last, dialog, router, client, tasks>>

\* What the actions of one part leave alone: the variables of the other parts.
otherVars == <<router, client, tasks>>
notNavVars == <<respVars, netVars, flowVars, dialog, otherVars>>
notRespVars == <<navVars, netVars, flowVars, dialog, otherVars>>
notNetVars == <<navVars, respVars, flowVars, dialog, otherVars>>
notFlowVars == <<navVars, respVars, netVars, otherVars>>

None == <<>>
Some(v) == <<v>>

\* Every sequence over S of length at most n.
SeqsUpTo(S, n) == UNION {[1..k -> S] : k \in 0..n}

(***************************************************************************)
(* Rust's str methods, as the standard library computes them.              *)
(***************************************************************************)

\* str::is_empty
IsEmpty(s) == Len(s) = 0

\* str::matches(c).count(): scan left to right, one match per occurrence.
RECURSIVE MatchesCount(_, _)
MatchesCount(s, c) ==
    IF s = <<>> THEN 0
    ELSE (IF Head(s) = c THEN 1 ELSE 0) + MatchesCount(Tail(s), c)

\* str::split(c): the iterator's items, in order.  The scan closes a segment
\* at every delimiter and yields the remainder at the end, so an empty
\* string yields one empty segment and "a*" yields "a" and "".
RECURSIVE SplitScan(_, _, _, _)
SplitScan(s, c, cur, acc) ==
    IF s = <<>> THEN Append(acc, cur)
    ELSE IF Head(s) = c THEN SplitScan(Tail(s), c, <<>>, Append(acc, cur))
    ELSE SplitScan(Tail(s), c, Append(cur, Head(s)), acc)

Split(s, c) == SplitScan(s, c, <<>>, <<>>)

\* Iterator::last
IterLast(items) == IF items = <<>> THEN None ELSE Some(items[Len(items)])

\* str::starts_with(&str)
StrStartsWith(s, p) == Len(p) <= Len(s) /\ SubSeq(s, 1, Len(p)) = p

(***************************************************************************)
(* UssdRequest                                                             *)
(***************************************************************************)

is_initial(t) == IsEmpty(t)

\* Faulty variant of depth: the count of delimiters, without the + 1.
depth_no_plus_one(t) == IF IsEmpty(t) THEN 0 ELSE MatchesCount(t, "*")

depth(t) == IF IsEmpty(t) THEN 0 ELSE MatchesCount(t, "*") + 1

\* Faulty variant of current_input: without the is_empty guard.
current_input_unguarded(t) == IterLast(Split(t, "*"))

current_input(t) == IF IsEmpty(t) THEN None ELSE IterLast(Split(t, "*"))

\* Faulty variant of navigation_path: without the is_empty guard.
navigation_path_unguarded(t) == Split(t, "*")

navigation_path(t) == IF IsEmpty(t) THEN <<>> ELSE Split(t, "*")

matches_path(t, p) == t = p

\* Faulty variant of starts_with_path: receiver and argument exchanged.
starts_with_path_swapped(t, p) == StrStartsWith(p, t)

starts_with_path(t, p) == StrStartsWith(t, p)

\* Bounds of the request texts explored.
MaxTextLen == 3
MaxPatternLen == 2
TextChars == {"1", "2", "*"}
Texts == SeqsUpTo(TextChars, MaxTextLen)
Patterns == SeqsUpTo(TextChars, MaxPatternLen)

NavUnset ==
    [is_initial |-> None, depth |-> None, current_input |-> None,
     navigation_path |-> None, matches_path |-> None, starts_with_path |-> None]

CallIsInitial ==
    /\ nav.is_initial = None
    /\ nav' = [nav EXCEPT !.is_initial = Some(is_initial(text))]
    /\ UNCHANGED <<text, pattern, notNavVars>>

CallDepth ==
    /\ nav.depth = None
    /\ nav' = [nav EXCEPT !.depth = Some(depth(text))]
    /\ UNCHANGED <<text, pattern, notNavVars>>

CallCurrentInput ==
    /\ nav.current_input = None
    /\ nav' = [nav EXCEPT !.current_input = Some(current_input(text))]
    /\ UNCHANGED <<text, pattern, notNavVars>>

CallNavigationPath ==
    /\ nav.navigation_path = None
    /\ nav' = [nav EXCEPT !.navigation_path = Some(navigation_path(text))]
    /\ UNCHANGED <<text, pattern, notNavVars>>

CallMatchesPath ==
    /\ nav.matches_path = None
    /\ nav' = [nav EXCEPT !.matches_path = Some(matches_path(text, pattern))]
    /\ UNCHANGED <<text, pattern, notNavVars>>

CallStartsWithPath ==
    /\ nav.starts_with_path = None
    /\ nav' = [nav EXCEPT !.starts_with_path = Some(starts_with_path(text, pattern))]
    /\ UNCHANGED <<text, pattern, notNavVars>>

NavNext ==
    \/ CallIsInitial
    \/ CallDepth
    \/ CallCurrentInput
    \/ CallNavigationPath
    \/ CallMatchesPath
    \/ CallStartsWithPath

(***************************************************************************)
(* UssdResponse and its Display                                            *)
(***************************************************************************)

\* UssdResponse { content: UssdResponseType::Continue(message) }
continues(message) == [content |-> [tag |-> "Continue", msg |-> message]]

\* UssdResponse { content: UssdResponseType::End(message) }
ends(message) == [content |-> [tag |-> "End", msg |-> message]]

is_continuing(r) == r.content.tag = "Continue"

is_ending(r) == r.content.tag = "End"

\* Faulty variant of message: the rendered text, prefix included.
message_rendered(r) ==
    (IF r.content.tag = "Continue" THEN <<"C", "O", "N", " ">>
     ELSE <<"E", "N", "D", " ">>) \o r.content.msg

message(r) == r.content.msg

\* Faulty variant of Display: the prefix without its trailing space.
to_string_trimmed(r) ==
    IF r.content.tag = "Continue" THEN <<"C", "O", "N">> \o r.content.msg
    ELSE <<"E", "N", "D">> \o r.content.msg

\* impl fmt::Display: write!(f, "CON {}", msg) / write!(f, "END {}", msg)
to_string(r) ==
    IF r.content.tag = "Continue" THEN <<"C", "O", "N", " ">> \o r.content.msg
    ELSE <<"E", "N", "D", " ">> \o r.content.msg

(***************************************************************************)
(* UssdMenu                                                                *)
(***************************************************************************)

UssdMenu_new(title) == [title |-> title, options |-> <<>>]

\* Faulty variant of add_option: the option is put first.
add_option_front(m, key, label) ==
    [m EXCEPT !.options = <<[key |-> key, label |-> label]>> \o @]

\* self.options.push((key, label))
add_option(m, key, label) ==
    [m EXCEPT !.options = Append(@, [key |-> key, label |-> label])]

\* for (key, label) in options { self.options.push((key, label)) }
RECURSIVE add_options(_, _)
add_options(m, opts) ==
    IF opts = <<>> THEN m
    ELSE add_options(add_option(m, Head(opts).key, Head(opts).label), Tail(opts))

\* format!("\n{}. {}", key, label)
OptionLine(o) == <<"\n">> \o o.key \o <<".", " ">> \o o.label

\* result = title.clone(); for each option in order: result.push_str(line)
RECURSIVE FormatLoop(_, _)
FormatLoop(result, opts) ==
    IF opts = <<>> THEN result
    ELSE FormatLoop(result \o OptionLine(Head(opts)), Tail(opts))

format_menu(m) == FormatLoop(m.title, m.options)

build_continue(m) == continues(format_menu(m))

build_end(m) == ends(format_menu(m))

\* Bounds of the messages and menus explored.
MaxMsgLen == 2
MaxOptions == 3
MaxBatch == 2
MsgChars == {"X", "\n"}
Messages == SeqsUpTo(MsgChars, MaxMsgLen)
Titles == {<<>>, <<"T">>}
\* Two options whose keys are out of order, so that sorting or dropping a
\* repeated key would show.
MenuOptions == {[key |-> <<"2">>, label |-> <<"B">>], [key |-> <<"1">>, label |-> <<"A">>]}

\* UssdResponse::continues(m)
Continues(m) ==
    /\ response' = Some(continues(m))
    /\ ctor' = [how |-> "continues", msg |-> m]
    /\ rendered' = None
    /\ UNCHANGED <<menu, notRespVars>>

\* UssdResponse::ends(m)
Ends(m) ==
    /\ response' = Some(ends(m))
    /\ ctor' = [how |-> "ends", msg |-> m]
    /\ rendered' = None
    /\ UNCHANGED <<menu, notRespVars>>

\* UssdMenu::new(title).  `log` records the calls made on the builder.
MenuNew(title) ==
    /\ menu' = Some([m |-> UssdMenu_new(title), log |-> [title |-> title, added |-> <<>>]])
    /\ UNCHANGED <<response, ctor, rendered, notRespVars>>

\* menu.add_option(key, label)
AddOption(o) ==
    /\ menu # None
    /\ Len(menu[1].log.added) < MaxOptions
    /\ menu' = Some([m |-> add_option(menu[1].m, o.key, o.label),
                     log |-> [menu[1].log EXCEPT !.added = Append(@, o)]])
    /\ UNCHANGED <<response, ctor, rendered, notRespVars>>

\* menu.add_options(opts)
AddOptions(opts) ==
    /\ menu # None
    /\ Len(menu[1].log.added) + Len(opts) <= MaxOptions
    /\ menu' = Some([m |-> add_options(menu[1].m, opts),
                     log |-> [menu[1].log EXCEPT !.added = @ \o opts]])
    /\ UNCHANGED <<response, ctor, rendered, notRespVars>>

\* menu.build_continue(): consumes the builder
BuildContinue ==
    /\ menu # None
    /\ response' = Some(build_continue(menu[1].m))
    /\ ctor' = [how |-> "build_continue", msg |-> format_menu(menu[1].m),
                log |-> menu[1].log]
    /\ menu' = None
    /\ rendered' = None
    /\ UNCHANGED notRespVars

\* menu.build_end(): consumes the builder
BuildEnd ==
    /\ menu # None
    /\ response' = Some(build_end(menu[1].m))
    /\ ctor' = [how |-> "build_end", msg |-> format_menu(menu[1].m),
                log |-> menu[1].log]
    /\ menu' = None
    /\ rendered' = None
    /\ UNCHANGED notRespVars

\* response.to_string()
Display ==
    /\ response # None
    /\ rendered = None
    /\ rendered' = Some(to_string(response[1]))
    /\ UNCHANGED <<menu, response, ctor, notRespVars>>

RespNext ==
    \/ \E m \in Messages : Continues(m)
    \/ \E m \in Messages : Ends(m)
    \/ \E t \in Titles : MenuNew(t)
    \/ \E o \in MenuOptions : AddOption(o)
    \/ \E opts \in SeqsUpTo(MenuOptions, MaxBatch) : AddOptions(opts)
    \/ BuildContinue
    \/ BuildEnd
    \/ Display

(***************************************************************************)
(* NetworkCode                                                             *)
(*                                                                         *)
(* from_code matches the whole string against literals, so a carrier code  *)
(* is an atom here.  A NetworkCode is [variant |-> name of the variant],   *)
(* with the field code for Unknown(code).                                  *)
(***************************************************************************)

\* Faulty variant of from_code: an unlisted code falls back to a carrier.
from_code_default_carrier(c) ==
    CASE c = "62006" -> [variant |-> "AirtelTigoGhana"]
      [] c = "62002" -> [variant |-> "VodafoneGhana"]
      [] c = "62001" -> [variant |-> "MtnGhana"]
      [] c = "62120" -> [variant |-> "AirtelNigeria"]
      [] c = "62130" -> [variant |-> "MtnNigeria"]
      [] c = "62150" -> [variant |-> "GloNigeria"]
      [] c = "62160" -> [variant |-> "EtisalatNigeria"]
      [] c = "63510" -> [variant |-> "MtnRwanda"]
      [] c = "63513" -> [variant |-> "TigoRwanda"]
      [] c = "63514" -> [variant |-> "AirtelRwanda"]
      [] c = "63601" -> [variant |-> "EthioTelecom"]
      [] c = "63902" -> [variant |-> "SafaricomKenya"]
      [] c = "63903" -> [variant |-> "AirtelKenya"]
      [] c = "63907" -> [variant |-> "OrangeKenya"]
      [] c = "63999" -> [variant |-> "EquitelKenya"]
      [] c = "64002" -> [variant |-> "TigoTanzania"]
      [] c = "64004" -> [variant |-> "VodacomTanzania"]
      [] c = "64005" -> [variant |-> "AirtelTanzania"]
      [] c = "64101" -> [variant |-> "AirtelUganda"]
      [] c = "64110" -> [variant |-> "MtnUganda"]
      [] c = "64114" -> [variant |-> "AfricellUganda"]
      [] c = "64501" -> [variant |-> "AirtelZambia"]
      [] c = "64502" -> [variant |-> "MtnZambia"]
      [] c = "65001" -> [variant |-> "TnmMalawi"]
      [] c = "65010" -> [variant |-> "AirtelMalawi"]
      [] c = "65501" -> [variant |-> "VodacomSouthAfrica"]
      [] c = "65502" -> [variant |-> "TelkomSouthAfrica"]
      [] c = "65507" -> [variant |-> "CellcSouthAfrica"]
      [] c = "65510" -> [variant |-> "MtnSouthAfrica"]
      [] c = "99999" -> [variant |-> "Athena"]
      [] OTHER -> [variant |-> "SafaricomKenya"]

\* NetworkCode::from_code
from_code(c) ==
    CASE c = "62006" -> [variant |-> "AirtelTigoGhana"]
      [] c = "62002" -> [variant |-> "VodafoneGhana"]
      [] c = "62001" -> [variant |-> "MtnGhana"]
      [] c = "62120" -> [variant |-> "AirtelNigeria"]
      [] c = "62130" -> [variant |-> "MtnNigeria"]
      [] c = "62150" -> [variant |-> "GloNigeria"]
      [] c = "62160" -> [variant |-> "EtisalatNigeria"]
      [] c = "63510" -> [variant |-> "MtnRwanda"]
      [] c = "63513" -> [variant |-> "TigoRwanda"]
      [] c = "63514" -> [variant |-> "AirtelRwanda"]
      [] c = "63601" -> [variant |-> "EthioTelecom"]
      [] c = "63902" -> [variant |-> "SafaricomKenya"]
      [] c = "63903" -> [variant |-> "AirtelKenya"]
      [] c = "63907" -> [variant |-> "OrangeKenya"]
      [] c = "63999" -> [variant |-> "EquitelKenya"]
      [] c = "64002" -> [variant |-> "TigoTanzania"]
      [] c = "64004" -> [variant |-> "VodacomTanzania"]
      [] c = "64005" -> [variant |-> "AirtelTanzania"]
      [] c = "64101" -> [variant |-> "AirtelUganda"]
      [] c = "64110" -> [variant |-> "MtnUganda"]
      [] c = "64114" -> [variant |-> "AfricellUganda"]
      [] c = "64501" -> [variant |-> "AirtelZambia"]
      [] c = "64502" -> [variant |-> "MtnZambia"]
      [] c = "65001" -> [variant |-> "TnmMalawi"]
      [] c = "65010" -> [variant |-> "AirtelMalawi"]
      [] c = "65501" -> [variant |-> "VodacomSouthAfrica"]
      [] c = "65502" -> [variant |-> "TelkomSouthAfrica"]
      [] c = "65507" -> [variant |-> "CellcSouthAfrica"]
      [] c = "65510" -> [variant |-> "MtnSouthAfrica"]
      [] c = "99999" -> [variant |-> "Athena"]
      [] OTHER -> [variant |-> "Unknown", code |-> c]

\* NetworkCode::name
name(n) ==
    CASE n.variant = "AirtelTigoGhana" -> "AirtelTigo Ghana"
      [] n.variant = "VodafoneGhana" -> "Vodafone Ghana"
      [] n.variant = "MtnGhana" -> "MTN Ghana"
      [] n.variant = "AirtelNigeria" -> "Airtel Nigeria"
      [] n.variant = "MtnNigeria" -> "MTN Nigeria"
      [] n.variant = "GloNigeria" -> "Glo Nigeria"
      [] n.variant = "EtisalatNigeria" -> "Etisalat Nigeria"
      [] n.variant = "MtnRwanda" -> "MTN Rwanda"
      [] n.variant = "TigoRwanda" -> "Tigo Rwanda"
      [] n.variant = "AirtelRwanda" -> "Airtel Rwanda"
      [] n.variant = "EthioTelecom" -> "EthioTelecom Ethiopia"
      [] n.variant = "SafaricomKenya" -> "Safaricom Kenya"
      [] n.variant = "AirtelKenya" -> "Airtel Kenya"
      [] n.variant = "OrangeKenya" -> "Orange Kenya"
      [] n.variant = "EquitelKenya" -> "Equitel Kenya"
      [] n.variant = "TigoTanzania" -> "Tigo Tanzania"
      [] n.variant = "VodacomTanzania" -> "Vodacom Tanzania"
      [] n.variant = "AirtelTanzania" -> "Airtel Tanzania"
      [] n.variant = "AirtelUganda" -> "Airtel Uganda"
      [] n.variant = "MtnUganda" -> "MTN Uganda"
      [] n.variant = "AfricellUganda" -> "Africell Uganda"
      [] n.variant = "AirtelZambia" -> "Airtel Zambia"
      [] n.variant = "MtnZambia" -> "MTN Zambia"
      [] n.variant = "TnmMalawi" -> "TNM Malawi"
      [] n.variant = "AirtelMalawi" -> "Airtel Malawi"
      [] n.variant = "VodacomSouthAfrica" -> "Vodacom South Africa"
      [] n.variant = "TelkomSouthAfrica" -> "Telkom South Africa"
      [] n.variant = "CellcSouthAfrica" -> "CellC South Africa"
      [] n.variant = "MtnSouthAfrica" -> "MTN South Africa"
      [] n.variant = "Athena" -> "Athena (Sandbox)"
      [] n.variant = "Unknown" -> "Unknown Network"

\* NetworkCode::country
country(n) ==
    CASE n.variant = "AirtelTigoGhana" -> "Ghana"
      [] n.variant = "VodafoneGhana" -> "Ghana"
      [] n.variant = "MtnGhana" -> "Ghana"
      [] n.variant = "AirtelNigeria" -> "Nigeria"
      [] n.variant = "MtnNigeria" -> "Nigeria"
      [] n.variant = "GloNigeria" -> "Nigeria"
      [] n.variant = "EtisalatNigeria" -> "Nigeria"
      [] n.variant = "MtnRwanda" -> "Rwanda"
      [] n.variant = "TigoRwanda" -> "Rwanda"
      [] n.variant = "AirtelRwanda" -> "Rwanda"
      [] n.variant = "EthioTelecom" -> "Ethiopia"
      [] n.variant = "SafaricomKenya" -> "Kenya"
      [] n.variant = "AirtelKenya" -> "Kenya"
      [] n.variant = "OrangeKenya" -> "Kenya"
      [] n.variant = "EquitelKenya" -> "Kenya"
      [] n.variant = "TigoTanzania" -> "Tanzania"
      [] n.variant = "VodacomTanzania" -> "Tanzania"
      [] n.variant = "AirtelTanzania" -> "Tanzania"
      [] n.variant = "AirtelUganda" -> "Uganda"
      [] n.variant = "MtnUganda" -> "Uganda"
      [] n.variant = "AfricellUganda" -> "Uganda"
      [] n.variant = "AirtelZambia" -> "Zambia"
      [] n.variant = "MtnZambia" -> "Zambia"
      [] n.variant = "TnmMalawi" -> "Malawi"
      [] n.variant = "AirtelMalawi" -> "Malawi"
      [] n.variant = "VodacomSouthAfrica" -> "South Africa"
      [] n.variant = "TelkomSouthAfrica" -> "South Africa"
      [] n.variant = "CellcSouthAfrica" -> "South Africa"
      [] n.variant = "MtnSouthAfrica" -> "South Africa"
      [] n.variant = "Athena" -> "Sandbox"
      [] n.variant = "Unknown" -> "Unknown"

\* The codes explored: every code from_code lists, and strings it does not
\* list (the tests' two unknown codes, the empty string, a listed code cut
\* short, extended, padded or in another case of letters).
ListedCodes ==
    {"62006", "62002", "62001", "62120", "62130", "62150",
     "62160", "63510", "63513", "63514", "63601", "63902",
     "63903", "63907", "63999", "64002", "64004", "64005",
     "64101", "64110", "64114", "64501", "64502", "65001",
     "65010", "65501", "65502", "65507", "65510", "99999"}

UnlistedCodes ==
    {"00000", "12345", "", "6390", "639020", " 63902", "63902 ", "athena", "62000"}

Codes == ListedCodes \cup UnlistedCodes

\* NetworkCode::from_code(code)
FromCode ==
    /\ network = None
    /\ network' = Some(from_code(code))
    /\ UNCHANGED <<code, netinfo, notNetVars>>

\* network.name()
Name ==
    /\ network # None
    /\ netinfo.name = None
    /\ netinfo' = [netinfo EXCEPT !.name = Some(name(network[1]))]
    /\ UNCHANGED <<code, network, notNetVars>>

\* network.country()
Country ==
    /\ network # None
    /\ netinfo.country = None
    /\ netinfo' = [netinfo EXCEPT !.country = Some(country(network[1]))]
    /\ UNCHANGED <<code, network, notNetVars>>

NetNext ==
    \/ FromCode
    \/ Name
    \/ Country

(***************************************************************************)
(* Rust's str and f64 methods the stateful handler calls.                  *)
(***************************************************************************)

Whitespace == {" ", "\t", "\n"}

\* str::trim: drop the whitespace at both ends.
RECURSIVE TrimStart(_)
TrimStart(s) ==
    IF s # <<>> /\ Head(s) \in Whitespace THEN TrimStart(Tail(s)) ELSE s

RECURSIVE TrimEnd(_)
TrimEnd(s) ==
    IF s # <<>> /\ s[Len(s)] \in Whitespace
    THEN TrimEnd(SubSeq(s, 1, Len(s) - 1)) ELSE s

Trim(s) == TrimEnd(TrimStart(s))

DigitChars == <<"0", "1", "2", "3", "4", "5", "6", "7", "8", "9">>
Digits == {DigitChars[i] : i \in 1..10}
DigitValue(c) == (CHOOSE i \in 1..10 : DigitChars[i] = c) - 1

\* The number a string of decimal digits writes (0 for the empty string).
RECURSIVE DigitsToNat(_)
DigitsToNat(ds) ==
    IF ds = <<>> THEN 0
    ELSE 10 * DigitsToNat(SubSeq(ds, 1, Len(ds) - 1)) + DigitValue(ds[Len(ds)])

\* The decimal digits of a natural number, as Display writes an integer.
RECURSIVE NatToDigits(_)
NatToDigits(n) ==
    IF n < 10 THEN <<DigitChars[n + 1]>>
    ELSE Append(NatToDigits(n \div 10), DigitChars[(n % 10) + 1])

RECURSIVE StripTrailingZeros(_)
StripTrailingZeros(ds) ==
    IF ds # <<>> /\ ds[Len(ds)] = "0"
    THEN StripTrailingZeros(SubSeq(ds, 1, Len(ds) - 1)) ELSE ds

(***************************************************************************)
(* str::parse::<f64>() on strings without an exponent or a special value   *)
(* (no 'e', "inf" or "nan" can be written with the characters explored):   *)
(* an optional sign, digits, optionally a point and more digits, with at   *)
(* least one digit in all; anything else, the empty string and surrounding *)
(* whitespace included, is an Err.  The value is kept as sign, integer     *)
(* part and fraction digits without trailing zeros, which is exact for     *)
(* the short decimals explored (an f64 holds 15 significant digits).       *)
(***************************************************************************)
ParseF64(s) ==
    LET signed == s # <<>> /\ s[1] \in {"+", "-"}
        body == IF signed THEN Tail(s) ELSE s
        dots == {i \in 1..Len(body) : body[i] = "."}
        dot == IF dots = {} THEN Len(body) + 1 ELSE CHOOSE i \in dots : TRUE
        ip == SubSeq(body, 1, dot - 1)
        fp == SubSeq(body, dot + 1, Len(body))
        wellFormed ==
            /\ Cardinality(dots) <= 1
            /\ \A i \in 1..Len(ip) : ip[i] \in Digits
            /\ \A i \in 1..Len(fp) : fp[i] \in Digits
            /\ Len(ip) + Len(fp) >= 1
    IN  IF wellFormed
        THEN [ok |-> TRUE, neg |-> signed /\ s[1] = "-", int |-> DigitsToNat(ip),
              frac |-> StripTrailingZeros(fp)]
        ELSE [ok |-> FALSE]

\* Faulty variant of F64GtZero: amount >= 0.0
F64GtZero_or_zero(a) == ~a.neg

\* amount > 0.0
F64GtZero(a) == ~a.neg /\ (a.int > 0 \/ a.frac # <<>>)

\* amount <= 100000.0
AmountCeiling == 100000
F64LeCeiling(a) ==
    a.neg \/ a.int < AmountCeiling \/ (a.int = AmountCeiling /\ a.frac = <<>>)

\* f64::to_string(): the shortest decimal that reads back as the value.
F64ToString(a) ==
    (IF a.neg THEN <<"-">> ELSE <<>>) \o NatToDigits(a.int)
    \o (IF a.frac = <<>> THEN <<>> ELSE <<".">> \o a.frac)

\* format!("{:.2}", amount), for the values explored: at most two fraction
\* digits, so that nothing is rounded.
F64Fixed2(a) ==
    (IF a.neg THEN <<"-">> ELSE <<>>) \o NatToDigits(a.int) \o <<".">>
    \o CASE Len(a.frac) = 0 -> <<"0", "0">>
         [] Len(a.frac) = 1 -> a.frac \o <<"0">>
         [] Len(a.frac) = 2 -> a.frac

(***************************************************************************)
(* SessionData, FlowState and AppState (stateful_example.rs)               *)
(*                                                                         *)
(* A HashMap<String, String> is a function from the keys it holds.         *)
(***************************************************************************)

FlowStates == {"Initial", "CollectingName", "CollectingAmount", "Confirming", "Complete"}

EmptyMap == <<>>
MapGet(map, k) == IF k \in DOMAIN map THEN Some(map[k]) ELSE None
MapInsert(map, k, v) ==
    [x \in (DOMAIN map) \cup {k} |-> IF x = k THEN v ELSE map[x]]

\* SessionData::default(): FlowState::Initial and an empty map
DefaultSession == [state |-> "Initial", data |-> EmptyMap]

\* AppState::get_session: the stored entry's clone, or the default
get_session(store, session_id) ==
    IF store[session_id] # None THEN store[session_id][1] ELSE DefaultSession

\* Faulty variant of update_session: the data is stored under every key.
update_session_every_key(store, session_id, data) ==
    [id \in DOMAIN store |-> Some(data)]

\* AppState::update_session: insert or replace the entry
update_session(store, session_id, data) ==
    [store EXCEPT ![session_id] = Some(data)]

\* AppState::clear_session: remove the entry
clear_session(store, session_id) == [store EXCEPT ![session_id] = None]

(***************************************************************************)
(* handle_stateful_ussd.  An outcome is what one interaction does after    *)
(* its get_session: the store operation it performs, if any, the           *)
(* UssdResponse it returns, and whether an unwrap() panicked on the way    *)
(* (the store operation that came before the panic stays done).            *)
(***************************************************************************)

NoWrite == None
WriteUpdate(data) == Some([op |-> "update_session", data |-> data])
WriteClear == Some([op |-> "clear_session"])

Replied(write, resp) == [write |-> write, response |-> Some(resp), panicked |-> FALSE]
Panicked(write) == [write |-> write, response |-> None, panicked |-> TRUE]

\* Faulty variant of the Initial arm: the phase is not advanced.
OnInitial_stays_initial(session) ==
    Replied(WriteUpdate(session),
            continues(<<"Welcome to Money Transfer\n\nPlease enter recipient's name:">>))

\* FlowState::Initial (lines 103-108)
OnInitial(session) ==
    Replied(WriteUpdate([session EXCEPT !.state = "CollectingName"]),
            continues(<<"Welcome to Money Transfer\n\nPlease enter recipient's name:">>))

\* Faulty variant of the CollectingName arm: a blank name is stored too.
OnCollectingName_store_on_reject(session, input) ==
    IF input # None
    THEN LET nm == input[1]
             accepted == [state |-> "CollectingAmount",
                          data |-> MapInsert(session.data, "recipient_name", nm)]
         IN  IF IsEmpty(Trim(nm))
             THEN Replied(WriteUpdate(accepted),
                      continues(<<"Name cannot be empty.\nPlease enter recipient's name:">>))
             ELSE Replied(WriteUpdate(accepted),
                      continues(<<"Enter amount to send (KES):">>))
    ELSE Replied(NoWrite, ends(<<"Invalid input. Please try again.">>))

\* Faulty variant of the CollectingName arm: an accepted name takes the
\* session straight to Confirming.
OnCollectingName_skips_amount(session, input) ==
    IF input # None
    THEN LET nm == input[1]
         IN  IF IsEmpty(Trim(nm))
             THEN Replied(NoWrite,
                      continues(<<"Name cannot be empty.\nPlease enter recipient's name:">>))
             ELSE Replied(
                      WriteUpdate([state |-> "Confirming",
                                   data |-> MapInsert(session.data, "recipient_name", nm)]),
                      continues(<<"Enter amount to send (KES):">>))
    ELSE Replied(NoWrite, ends(<<"Invalid input. Please try again.">>))

\* FlowState::CollectingName (lines 110-124)
OnCollectingName(session, input) ==
    IF input # None
    THEN LET nm == input[1]
         IN  IF IsEmpty(Trim(nm))
             THEN Replied(NoWrite,
                      continues(<<"Name cannot be empty.\nPlease enter recipient's name:">>))
             ELSE Replied(
                      WriteUpdate([state |-> "CollectingAmount",
                                   data |-> MapInsert(session.data, "recipient_name", nm)]),
                      continues(<<"Enter amount to send (KES):">>))
    ELSE Replied(NoWrite, ends(<<"Invalid input. Please try again.">>))

\* Faulty variant of ConfirmMenu: the menu is built with build_end.
ConfirmMenu_as_end(nm, amount) ==
    build_end(
        add_option(
            add_option(
                UssdMenu_new(<<"Confirm transfer:\n\nRecipient: ">> \o nm
                             \o <<"\nAmount: KES ">> \o F64Fixed2(amount)
                             \o <<"\n\nConfirm?">>),
                <<"1">>, <<"Yes, send money">>),
            <<"2">>, <<"Cancel">>))

\* The confirmation menu of lines 135-141
ConfirmMenu(nm, amount) ==
    build_continue(
        add_option(
            add_option(
                UssdMenu_new(<<"Confirm transfer:\n\nRecipient: ">> \o nm
                             \o <<"\nAmount: KES ">> \o F64Fixed2(amount)
                             \o <<"\n\nConfirm?">>),
                <<"1">>, <<"Yes, send money">>),
            <<"2">>, <<"Cancel">>))

\* Faulty variant of OnCollectingAmount: the amount is stored in a fresh map.
OnCollectingAmount_fresh_map(session, input) ==
    IF input # None
    THEN LET parsed == ParseF64(input[1])
         IN  IF parsed.ok
             THEN IF F64GtZero(parsed) /\ F64LeCeiling(parsed)
                  THEN LET updated ==
                               [state |-> "Confirming",
                                data |-> MapInsert(EmptyMap, "amount",
                                                   F64ToString(parsed))]
                           nm == MapGet(session.data, "recipient_name")
                       IN  IF nm = None THEN Panicked(WriteUpdate(updated))
                           ELSE Replied(WriteUpdate(updated), ConfirmMenu(nm[1], parsed))
                  ELSE Replied(NoWrite,
                           continues(<<"Amount must be between 1 and 100,000.\nEnter amount:">>))
             ELSE Replied(NoWrite, continues(<<"Invalid amount.\nEnter amount (KES):">>))
    ELSE Replied(NoWrite, ends(<<"Invalid input. Please try again.">>))

\* FlowState::CollectingAmount (lines 126-151)
OnCollectingAmount(session, input) ==
    IF input # None
    THEN LET parsed == ParseF64(input[1])
         IN  IF parsed.ok
             THEN IF F64GtZero(parsed) /\ F64LeCeiling(parsed)
                  THEN LET updated ==
                               [state |-> "Confirming",
                                data |-> MapInsert(session.data, "amount",
                                                   F64ToString(parsed))]
                           nm == MapGet(updated.data, "recipient_name")
                       IN  IF nm = None THEN Panicked(WriteUpdate(updated))
                           ELSE Replied(WriteUpdate(updated), ConfirmMenu(nm[1], parsed))
                  ELSE Replied(NoWrite,
                           continues(<<"Amount must be between 1 and 100,000.\nEnter amount:">>))
             ELSE Replied(NoWrite, continues(<<"Invalid amount.\nEnter amount (KES):">>))
    ELSE Replied(NoWrite, ends(<<"Invalid input. Please try again.">>))

\* Faulty variant of the confirm arm: the session is not cleared.
ConfirmChoice_keeps_session(session, now) ==
    LET nm == MapGet(session.data, "recipient_name")
        stored == MapGet(session.data, "amount")
    IN  Replied(NoWrite,
            ends(<<"Success!\n\nSent KES ">> \o F64Fixed2(ParseF64(stored[1]))
                 \o <<" to ">> \o nm[1]
                 \o <<"\n\nTransaction ID: TXN">> \o NatToDigits(now)))

\* The arm "1" of FlowState::Confirming (lines 156-171); now is
\* chrono::Utc::now().timestamp().  The unwrap()s come before clear_session.
ConfirmChoice(session, now) ==
    LET nm == MapGet(session.data, "recipient_name")
        stored == MapGet(session.data, "amount")
    IN  IF nm = None \/ stored = None THEN Panicked(NoWrite)
        ELSE IF ~ParseF64(stored[1]).ok THEN Panicked(NoWrite)
        ELSE Replied(WriteClear,
                 ends(<<"Success!\n\nSent KES ">> \o F64Fixed2(ParseF64(stored[1]))
                      \o <<" to ">> \o nm[1]
                      \o <<"\n\nTransaction ID: TXN">> \o NatToDigits(now)))

\* Faulty variant of the cancel arm: the transfer is made all the same.
CancelChoice_confirms(session, now) == ConfirmChoice(session, now)

\* The arm "2" of FlowState::Confirming (lines 172-175)
CancelChoice(session, now) == Replied(WriteClear, ends(<<"Transaction cancelled.">>))

\* The arm _ of FlowState::Confirming (line 176): no clear_session
OtherChoice(session, now) ==
    Replied(NoWrite, ends(<<"Invalid option. Transaction cancelled.">>))

\* FlowState::Confirming (lines 153-181)
OnConfirming(session, input, now) ==
    IF input # None
    THEN CASE input[1] = <<"1">> -> ConfirmChoice(session, now)
           [] input[1] = <<"2">> -> CancelChoice(session, now)
           [] OTHER -> OtherChoice(session, now)
    ELSE Replied(NoWrite, ends(<<"Invalid input. Transaction cancelled.">>))

\* FlowState::Complete (line 183)
OnComplete == Replied(NoWrite, ends(<<"Session already completed.">>))

\* match session.state { ... } (lines 102-184)
Dispatch(session, request, now) ==
    CASE session.state = "Initial" -> OnInitial(session)
      [] session.state = "CollectingName" ->
             OnCollectingName(session, current_input(request.text))
      [] session.state = "CollectingAmount" ->
             OnCollectingAmount(session, current_input(request.text))
      [] session.state = "Confirming" ->
             OnConfirming(session, current_input(request.text), now)
      [] session.state = "Complete" -> OnComplete

\* The store after the outcome's operation on the request's session.
ApplyWrite(store, session_id, write) ==
    IF write = None THEN store
    ELSE IF write[1].op = "update_session"
         THEN update_session(store, session_id, write[1].data)
         ELSE clear_session(store, session_id)

\* Bounds and inputs of the interactions explored.
MaxSegments == 2
SessionIds == {"s1"}
Timestamps == {1700000000, 1700000001}
\* What a user may type at one prompt: nothing, a blank, the two menu
\* choices, a name, and amounts that are negative, zero, fractional, in
\* range, at the ceiling and above it.
Inputs ==
    {<<>>, <<" ">>, <<"1">>, <<"2">>, <<"a", "b", "c">>, <<"-", "5">>, <<"0">>,
     <<"0", ".", "5">>, <<"5", "0", "0">>, <<"1", "0", "0", "0", "0", "0">>,
     <<"1", "0", "0", "0", "0", "1">>}

\* The accumulated text of k inputs: the inputs joined with '*'.
RECURSIVE JoinInputs(_)
JoinInputs(segs) ==
    IF segs = <<>> THEN <<>>
    ELSE IF Len(segs) = 1 THEN segs[1]
    ELSE JoinInputs(SubSeq(segs, 1, Len(segs) - 1)) \o <<"*">> \o segs[Len(segs)]

RequestTexts == {JoinInputs(segs) : segs \in SeqsUpTo(Inputs, MaxSegments)}

\* Faulty variant of StoreCalls: the entry is read again after the write.
StoreCalls_reads_again(outcome) ==
    <<"get_session">>
    \o (IF outcome.write = None THEN <<>> ELSE <<outcome.write[1].op, "get_session">>)

\* The calls one run of the handler makes on AppState, in order: get_session
\* (line 99), then the update_session or clear_session of the arm taken.
StoreCalls(outcome) ==
    <<"get_session">>
    \o (IF outcome.write = None THEN <<>> ELSE <<outcome.write[1].op>>)

\* What the interaction is remembered by, for the properties below.
Record(request, now, before, session, outcome) ==
    [session_id |-> request.session_id,
     initial |-> is_initial(request.text),
     input |-> current_input(request.text),
     now |-> now,
     before |-> before,
     phase |-> session.state,
     ops |-> StoreCalls(outcome),
     panicked |-> outcome.panicked,
     response |-> outcome.response,
     body |-> IF outcome.response = None THEN None
              ELSE Some(to_string(outcome.response[1]))]

\* One POST /ussd, handled from its get_session to its response.
Interact(session_id, txt, now) ==
    \E request \in {[session_id |-> session_id, text |-> txt]} :
    \E session \in {get_session(sessions, request.session_id)} :
    \E outcome \in {Dispatch(session, request, now)} :
        /\ sessions' = ApplyWrite(sessions, request.session_id, outcome.write)
        /\ last' = Record(request, now, sessions[request.session_id], session, outcome)
        /\ UNCHANGED notFlowVars

FlowNext ==
    \E session_id \in SessionIds, txt \in RequestTexts, now \in Timestamps :
        /\ Interact(session_id, txt, now)
        /\ UNCHANGED dialog

\* The number of requests of one USSD session explored.
MaxTurns == 4

\* The session the gateway drives.
DialogSession == "s1"

\* No request posted yet.
NoDialog == [texts |-> <<>>, replies |-> <<>>]

\* UssdRequest.text of the next request: the empty string for the first
\* request, then the user's inputs concatenated with '*'.
NextText(texts, input) ==
    IF texts = <<>> \/ texts[Len(texts)] = <<>> THEN input
    ELSE texts[Len(texts)] \o <<"*">> \o input

\* The gateway posts the first request of the session: text is empty.
Dial(now) ==
    /\ dialog.texts = <<>>
    /\ Interact(DialogSession, <<>>, now)
    /\ dialog' = [texts |-> <<(<<>>)>>, replies |-> <<last'.response>>]

\* The user answers a CON reply and the gateway posts the accumulated text;
\* after an END reply, or a request left without reply, it posts no more.
Answer(input, now) ==
    /\ dialog.texts # <<>>
    /\ Len(dialog.texts) < MaxTurns
    /\ dialog.replies[Len(dialog.replies)] # None
    /\ is_continuing(dialog.replies[Len(dialog.replies)][1])
    /\ \E txt \in {NextText(dialog.texts, input)} :
           /\ Interact(DialogSession, txt, now)
           /\ dialog' = [texts |-> Append(dialog.texts, txt),
                         replies |-> Append(dialog.replies, last'.response)]

DialogNext ==
    \/ \E now \in Timestamps : Dial(now)
    \/ \E input \in Inputs, now \in Timestamps : Answer(input, now)

(***************************************************************************)
(* The stateless router (examples/ussd_with_axum.rs)                       *)
(***************************************************************************)

\* The bound of the phone numbers explored.
MaxPhoneLen == 6
PhoneChars == {"0", "7"}
PhoneNumbers == SeqsUpTo(PhoneChars, MaxPhoneLen)

\* The accumulated texts posted to the router.
RouterChars == {"1", "2", "3", "*"}
RouterTexts == SeqsUpTo(RouterChars, MaxTextLen)

\* fetch_account_number: format!("ACC{}", &phone_number[len - 6..]).  On a
\* phone number of fewer than 6 bytes the index panics (the subtraction
\* overflows, or the wrapped start is out of range): no value is returned.
fetch_account_number(phone_number) ==
    IF Len(phone_number) < 6 THEN None
    ELSE Some(<<"ACC">> \o SubSeq(phone_number, Len(phone_number) - 5, Len(phone_number)))

\* fetch_account_balance: 1234.56
fetch_account_balance(phone_number) == [ok |-> TRUE, neg |-> FALSE, int |-> 1234, frac |-> <<"5", "6">>]

\* route_ussd_request (lines 53-97)
route_ussd_request(request) ==
    IF is_initial(request.text)
    THEN Replied(NoWrite,
             build_continue(
                 add_option(add_option(add_option(
                     UssdMenu_new(<<"What would you like to check?">>),
                     <<"1">>, <<"My account">>),
                     <<"2">>, <<"My phone number">>),
                     <<"3">>, <<"Help">>)))
    ELSE CASE request.text = <<"1">> ->
                  Replied(NoWrite,
                      build_continue(
                          add_option(add_option(
                              UssdMenu_new(<<"Choose account information">>),
                              <<"1">>, <<"Account number">>),
                              <<"2">>, <<"Account balance">>)))
           [] request.text = <<"2">> ->
                  Replied(NoWrite,
                      ends(<<"Your phone number is ">> \o request.phone_number))
           [] request.text = <<"3">> ->
                  Replied(NoWrite,
                      ends(<<"For support, call 0800-123-456 or visit our website.">>))
           [] request.text = <<"1", "*", "1">> ->
                  IF fetch_account_number(request.phone_number) = None
                  THEN Panicked(NoWrite)
                  ELSE Replied(NoWrite,
                           ends(<<"Your account number is ">>
                                \o fetch_account_number(request.phone_number)[1]))
           [] request.text = <<"1", "*", "2">> ->
                  Replied(NoWrite,
                      ends(<<"Your account balance is KES ">>
                           \o F64Fixed2(fetch_account_balance(request.phone_number))))
           [] OTHER ->
                  Replied(NoWrite, ends(<<"Invalid option. Please try again.">>))

\* No request routed yet.
NoRouter == [phone_number |-> <<>>, reply |-> None]

\* handle_ussd (lines 35-50): the routed response, rendered as the body.
handle_ussd ==
    /\ router.reply = None
    /\ \E outcome \in {route_ussd_request([text |-> text,
                                            phone_number |-> router.phone_number])} :
           router' = [router EXCEPT !.reply =
                          Some([panicked |-> outcome.panicked,
                                response |-> outcome.response,
                                body |-> IF outcome.response = None THEN None
                                         ELSE Some(to_string(outcome.response[1]))])]
    /\ UNCHANGED <<text, pattern, nav, respVars, netVars, flowVars, dialog, client, tasks>>

RouterNext == handle_ussd

(***************************************************************************)
(* AfricasTalkingClient::request (src/client.rs) and is_retryable           *)
(* (src/error.rs)                                                          *)
(***************************************************************************)

\* AfricasTalkingError::is_retryable (error.rs lines 84-91)
is_retryable(e) == e \in {"Http", "Timeout", "RateLimit"}

\* The largest Config::max_retries explored, and u32::MAX, held as the 32
\* one-bits read as a two's complement integer: adding 1 to it gives 0, as
\* the wrapping addition of a build without overflow checks does.
MaxRetries == 3
U32Max == -1
RetryLimits == (0..MaxRetries) \cup {U32Max}

\* What one make_request can give (lines 153-189): a response, whose status,
\* body and JSON are the server's, or an error: serde_json's `?` gives
\* Serialization, reqwest's send().await? gives Http (a timeout of the
\* reqwest client included).
Statuses == {200, 429, 500}
Responses ==
    [status : Statuses, text_ok : BOOLEAN, json_ok : BOOLEAN]
MakeRequestResults ==
    {[ok |-> TRUE, response |-> rsp] : rsp \in Responses}
    \cup {[ok |-> FALSE, error |-> e] : e \in {"Http", "Serialization"}}

Ok == [ok |-> TRUE]
Err(e) == [ok |-> FALSE, error |-> e]

\* handle_response (lines 192-227)
handle_response(rsp) ==
    IF ~rsp.text_ok THEN Err("Http")
    ELSE IF rsp.status = 429 THEN Err("RateLimit")
    ELSE IF rsp.status \notin 200..299 THEN Err("Api")
    ELSE IF rsp.json_ok THEN Ok
    ELSE Err("Serialization")

\* Faulty variant of AttemptsRemain: one attempt too many.
AttemptsRemain_inclusive(attempts, max_attempts) == attempts <= max_attempts

\* attempts < max_attempts (line 142)
AttemptsRemain(attempts, max_attempts) == attempts < max_attempts

\* Duration::from_millis(1000 * attempts as u64) (line 143)
Delay(attempts) == 1000 * attempts

\* Nothing asked of the client yet.
NoClient == [pc |-> "idle"]

\* request has been called with the configuration's max_retries.
Called(max_retries) ==
    [pc |-> "called", max_retries |-> max_retries, attempts |-> 0,
     max_attempts |-> 0, calls |-> 0, waits |-> <<>>, made |-> <<>>,
     result |-> None]

\* let mut attempts = 0; let max_attempts = self.config.max_retries + 1;
\* (lines 134-135), the addition not overflowing or wrapping to 0.
EnterRequest ==
    /\ client.pc = "called"
    /\ client' = [client EXCEPT !.pc = "loop",
                                !.max_attempts = client.max_retries + 1]
    /\ UNCHANGED <<navVars, respVars, netVars, flowVars, dialog, router, tasks>>

\* The same addition in a build with overflow checks: u32::MAX + 1 panics.
EnterRequestOverflow ==
    /\ client.pc = "called"
    /\ client.max_retries = U32Max
    /\ client' = [client EXCEPT !.pc = "panicked"]
    /\ UNCHANGED <<navVars, respVars, netVars, flowVars, dialog, router, tasks>>

\* One turn of the loop (lines 138-148) with the result `made` of
\* make_request: the response handled and returned, or the error slept on
\* and the loop continued, or the error returned.
Attempt(made) ==
    /\ client.pc = "loop"
    /\ \E attempts \in {client.attempts + 1} :
           client' =
               IF made.ok
               THEN [client EXCEPT !.attempts = attempts,
                                   !.calls = client.calls + 1,
                                   !.made = Append(client.made, made),
                                   !.result = Some(handle_response(made.response)),
                                   !.pc = "returned"]
               ELSE IF AttemptsRemain(attempts, client.max_attempts)
                       /\ is_retryable(made.error)
               THEN [client EXCEPT !.attempts = attempts,
                                   !.calls = client.calls + 1,
                                   !.made = Append(client.made, made),
                                   !.waits = Append(client.waits, Delay(attempts))]
               ELSE [client EXCEPT !.attempts = attempts,
                                   !.calls = client.calls + 1,
                                   !.made = Append(client.made, made),
                                   !.result = Some(Err(made.error)),
                                   !.pc = "returned"]
    /\ UNCHANGED <<navVars, respVars, netVars, flowVars, dialog, router, tasks>>

ClientNext ==
    \/ EnterRequest
    \/ EnterRequestOverflow
    \/ \E made \in MakeRequestResults : Attempt(made)

(***************************************************************************)
(* Calls of handle_stateful_ussd that overlap.  tokio serves every request *)
(* in a task of its own; a call takes the lock of AppState.sessions twice: *)
(* to read in get_session, and to write in update_session or               *)
(* clear_session.  Between the two, other calls may run.                   *)
(***************************************************************************)

\* No call of the handler in flight.
NoTasks == <<>>

\* The tasks, the sessions and the texts of the overlapping calls explored.
TaskIds == {"t1", "t2"}
TaskSessionIds == {"s1", "s2"}
TaskTexts == {<<>>, <<"1">>, <<"2">>}
TaskTimestamps == {1700000000}

\* A task that serves no request.
IdleTask == [pc |-> "idle"]

\* Another task holds a copy of the same session's entry that it has not
\* acted on yet.
Overlapping(t, session_id) ==
    {u \in TaskIds \ {t} :
         tasks[u].pc = "read" /\ tasks[u].request.session_id = session_id}

\* Lines 94-99: the request arrives and get_session clones the entry, under
\* the read lock.
GetSession(t, session_id, txt, now) ==
    /\ tasks[t].pc = "idle"
    /\ tasks' =
           [u \in TaskIds |->
               IF u = t
               THEN [pc |-> "read",
                     request |-> [session_id |-> session_id, text |-> txt],
                     now |-> now,
                     session |-> get_session(sessions, session_id),
                     overlapped |-> Overlapping(t, session_id) # {}]
               ELSE IF u \in Overlapping(t, session_id)
               THEN [tasks[u] EXCEPT !.overlapped = TRUE]
               ELSE tasks[u]]
    /\ UNCHANGED <<sessions, last, dialog, navVars, respVars, netVars, router, client>>

\* Lines 102-190: the match on the copy's phase, the update_session or
\* clear_session of the arm taken, under the write lock, and the response.
\* `stored` is the entry the store held when the arm ran, `left` the entry
\* it holds after.
Handle(t) ==
    /\ tasks[t].pc = "read"
    /\ \E outcome \in {Dispatch(tasks[t].session, tasks[t].request, tasks[t].now)} :
           /\ sessions' = ApplyWrite(sessions, tasks[t].request.session_id, outcome.write)
           /\ tasks' =
                  [tasks EXCEPT ![t] =
                      [pc |-> "done",
                       request |-> tasks[t].request,
                       now |-> tasks[t].now,
                       session |-> tasks[t].session,
                       overlapped |-> tasks[t].overlapped,
                       wrote |-> outcome.write # None,
                       stored |-> get_session(sessions, tasks[t].request.session_id),
                       left |-> sessions'[tasks[t].request.session_id],
                       panicked |-> outcome.panicked,
                       response |-> outcome.response]]
    /\ UNCHANGED <<last, dialog, navVars, respVars, netVars, router, client>>

\* The response has gone out; the task is free for the next request.
Respond(t) ==
    /\ tasks[t].pc = "done"
    /\ tasks' = [tasks EXCEPT ![t] = IdleTask]
    /\ UNCHANGED <<sessions, last, dialog, navVars, respVars, netVars, router, client>>

TasksNext ==
    \/ \E t \in TaskIds, session_id \in TaskSessionIds, txt \in TaskTexts,
          now \in TaskTimestamps : GetSession(t, session_id, txt, now)
    \/ \E t \in TaskIds : Handle(t)
    \/ \E t \in TaskIds : Respond(t)

(***************************************************************************)
(* Specifications.  Each part is explored on its own: the other parts'     *)
(* variables rest at their idle values.                                    *)
(***************************************************************************)

NoInteraction == [session_id |-> "", ops |-> <<>>, response |-> None, body |-> None]

\* The navigation helpers applied to every request text and pattern.
InitNav ==
    /\ text \in Texts
    /\ pattern \in Patterns
    /\ nav = NavUnset
    /\ menu = None
    /\ response = None
    /\ ctor = [how |-> "none"]
    /\ rendered = None
    /\ code = ""
    /\ network = None
    /\ netinfo = [name |-> None, country |-> None]
    /\ sessions = [id \in SessionIds |-> None]
    /\ last = NoInteraction
    /\ dialog = NoDialog
    /\ router = NoRouter
    /\ client = NoClient
    /\ tasks = NoTasks

SpecNav == InitNav /\ [][NavNext]_vars

\* Responses and menus built and rendered in every order.
InitResp ==
    /\ text = <<>>
    /\ pattern = <<>>
    /\ nav = NavUnset
    /\ menu = None
    /\ response = None
    /\ ctor = [how |-> "none"]
    /\ rendered = None
    /\ code = ""
    /\ network = None
    /\ netinfo = [name |-> None, country |-> None]
    /\ sessions = [id \in SessionIds |-> None]
    /\ last = NoInteraction
    /\ dialog = NoDialog
    /\ router = NoRouter
    /\ client = NoClient
    /\ tasks = NoTasks

SpecResp == InitResp /\ [][RespNext]_vars

\* from_code, name and country applied to every code.
InitNet ==
    /\ text = <<>>
    /\ pattern = <<>>
    /\ nav = NavUnset
    /\ menu = None
    /\ response = None
    /\ ctor = [how |-> "none"]
    /\ rendered = None
    /\ code \in Codes
    /\ network = None
    /\ netinfo = [name |-> None, country |-> None]
    /\ sessions = [id \in SessionIds |-> None]
    /\ last = NoInteraction
    /\ dialog = NoDialog
    /\ router = NoRouter
    /\ client = NoClient
    /\ tasks = NoTasks

SpecNet == InitNet /\ [][NetNext]_vars

\* The stateful handler serving one interaction after another, from the
\* empty store of AppState::new().
Init ==
    /\ text = <<>>
    /\ pattern = <<>>
    /\ nav = NavUnset
    /\ menu = None
    /\ response = None
    /\ ctor = [how |-> "none"]
    /\ rendered = None
    /\ code = ""
    /\ network = None
    /\ netinfo = [name |-> None, country |-> None]
    /\ sessions = [id \in SessionIds |-> None]
    /\ last = NoInteraction
    /\ dialog = NoDialog
    /\ router = NoRouter
    /\ client = NoClient
    /\ tasks = NoTasks

Next == FlowNext

Spec == Init /\ [][Next]_vars

\* One USSD session from its first request, served from the empty store.
InitDialog ==
    /\ text = <<>>
    /\ pattern = <<>>
    /\ nav = NavUnset
    /\ menu = None
    /\ response = None
    /\ ctor = [how |-> "none"]
    /\ rendered = None
    /\ code = ""
    /\ network = None
    /\ netinfo = [name |-> None, country |-> None]
    /\ sessions = [id \in SessionIds |-> None]
    /\ last = NoInteraction
    /\ dialog = NoDialog
    /\ router = NoRouter
    /\ client = NoClient
    /\ tasks = NoTasks

SpecDialog == InitDialog /\ [][DialogNext]_vars

\* The router handed every text by every phone number.
InitRouter ==
    /\ text \in RouterTexts
    /\ pattern = <<>>
    /\ nav = NavUnset
    /\ menu = None
    /\ response = None
    /\ ctor = [how |-> "none"]
    /\ rendered = None
    /\ code = ""
    /\ network = None
    /\ netinfo = [name |-> None, country |-> None]
    /\ sessions = [id \in SessionIds |-> None]
    /\ last = NoInteraction
    /\ dialog = NoDialog
    /\ router \in {[phone_number |-> ph, reply |-> None] : ph \in PhoneNumbers}
    /\ client = NoClient
    /\ tasks = NoTasks

SpecRouter == InitRouter /\ [][RouterNext]_vars

\* One call of request under every max_retries, the server and the network
\* answering each attempt as they please.  Every attempt ends, by the
\* reqwest client's timeout (client.rs line 43), and so does every sleep.
InitClient ==
    /\ text = <<>>
    /\ pattern = <<>>
    /\ nav = NavUnset
    /\ menu = None
    /\ response = None
    /\ ctor = [how |-> "none"]
    /\ rendered = None
    /\ code = ""
    /\ network = None
    /\ netinfo = [name |-> None, country |-> None]
    /\ sessions = [id \in SessionIds |-> None]
    /\ last = NoInteraction
    /\ dialog = NoDialog
    /\ router = NoRouter
    /\ client \in {Called(max_retries) : max_retries \in RetryLimits}
    /\ tasks = NoTasks

SpecClient == InitClient /\ [][ClientNext]_vars /\ WF_vars(ClientNext)

\* Two tasks serving requests for two sessions in every interleaving, from
\* the empty store.
InitTasks ==
    /\ text = <<>>
    /\ pattern = <<>>
    /\ nav = NavUnset
    /\ menu = None
    /\ response = None
    /\ ctor = [how |-> "none"]
    /\ rendered = None
    /\ code = ""
    /\ network = None
    /\ netinfo = [name |-> None, country |-> None]
    /\ sessions = [id \in TaskSessionIds |-> None]
    /\ last = NoInteraction
    /\ dialog = NoDialog
    /\ router = NoRouter
    /\ client = NoClient
    /\ tasks = [t \in TaskIds |-> IdleTask]

SpecTasks == InitTasks /\ [][TasksNext]_vars

(***************************************************************************)
(* Properties                                                              *)
(***************************************************************************)

ConPrefix == <<"C", "O", "N", " ">>
EndPrefix == <<"E", "N", "D", " ">>

\* C1: for every message m, continues(m).to_string() is "CON " followed by
\* m and ends(m).to_string() is "END " followed by m: four prefix
\* characters, then every character of m in place, and nothing else.
C1_RenderIsPrefixThenMessage ==
    (rendered # None /\ ctor.how \in {"continues", "ends"}) =>
        LET out == rendered[1]
            m == ctor.msg
            prefix == IF ctor.how = "continues" THEN ConPrefix ELSE EndPrefix
        IN  /\ Len(out) = 4 + Len(m)
            /\ \A i \in 1..4 : out[i] = prefix[i]
            /\ \A i \in 1..Len(m) : out[4 + i] = m[i]

\* C1 witness: a message with a newline, ended and rendered.
C1_Witness ==
    /\ ctor.how = "ends"
    /\ ctor.msg = <<"\n", "X">>
    /\ rendered = Some(<<"E", "N", "D", " ", "\n", "X">>)

\* The text of a menu: one "\n{key}. {label}" line per option, in order.
RECURSIVE MenuLines(_)
MenuLines(opts) ==
    IF opts = <<>> THEN <<>>
    ELSE <<"\n">> \o Head(opts).key \o <<".", " ">> \o Head(opts).label
         \o MenuLines(Tail(opts))

\* C2: a built menu's message is its title followed by one line per option
\* in the order the options were added through add_option and add_options
\* (just the title when none was added); build_continue gives a Continue
\* response and build_end an End response.
C2_MenuInInsertionOrder ==
    (response # None /\ ctor.how \in {"build_continue", "build_end"}) =>
        /\ message(response[1]) = ctor.log.title \o MenuLines(ctor.log.added)
        /\ ctor.how = "build_continue" =>
               is_continuing(response[1]) /\ ~is_ending(response[1])
        /\ ctor.how = "build_end" =>
               is_ending(response[1]) /\ ~is_continuing(response[1])

\* C2 witness: key "2" added before key "1", then "2" again, built as End.
C2_Witness ==
    /\ ctor.how = "build_end"
    /\ ctor.log.title = <<"T">>
    /\ Len(ctor.log.added) = 3
    /\ ctor.log.added[1].key = <<"2">>
    /\ ctor.log.added[2].key = <<"1">>
    /\ ctor.log.added[3].key = <<"2">>
    /\ response # None
    /\ message(response[1]) =
           <<"T", "\n", "2", ".", " ", "B", "\n", "1", ".", " ", "A",
             "\n", "2", ".", " ", "B">>

\* The positions of the delimiter in a text.
Stars(t) == {i \in 1..Len(t) : t[i] = "*"}

\* C3: depth() is 0 for the empty text and otherwise the number of '*'
\* characters plus 1.
C3_DepthCountsDelimiters ==
    nav.depth # None =>
        nav.depth[1] = IF text = <<>> THEN 0 ELSE Cardinality(Stars(text)) + 1

\* C3 witness: depth() called on "*1*".
C3_Witness == text = <<"*", "1", "*">> /\ nav.depth = Some(3)

\* The substring after the last delimiter (the whole text when it has none).
AfterLastStar(t) ==
    LET lastStar == IF Stars(t) = {} THEN 0
                    ELSE CHOOSE i \in Stars(t) : \A j \in Stars(t) : j <= i
    IN  SubSeq(t, lastStar + 1, Len(t))

\* C4: current_input() is None exactly when is_initial(); otherwise it is
\* Some of the substring after the last '*', which is Some("") and not None
\* when the text ends with '*'.
C4_CurrentInputIsLastSegment ==
    nav.current_input # None =>
        LET ci == nav.current_input[1]
        IN  /\ (ci = None) <=> (text = <<>>)
            /\ nav.is_initial # None => ((ci = None) <=> nav.is_initial[1])
            /\ text # <<>> => ci = Some(AfterLastStar(text))
            /\ (text # <<>> /\ text[Len(text)] = "*") => (ci = Some(<<>>) /\ ci # None)

\* C4 witness: both helpers called on "1*".
C4_Witness ==
    /\ text = <<"1", "*">>
    /\ nav.is_initial = Some(FALSE)
    /\ nav.current_input = Some(Some(<<>>))

\* p is a prefix of t, character by character.
IsCharPrefix(p, t) == Len(p) <= Len(t) /\ \A i \in 1..Len(p) : t[i] = p[i]

\* C5: matches_path(p) is true exactly when the text equals p, and
\* starts_with_path(p) exactly when p is a character prefix of the text;
\* so matches_path(p) implies starts_with_path(p).
C5_MatchesAndStartsWith ==
    /\ nav.matches_path # None =>
           (nav.matches_path[1] <=>
                (Len(text) = Len(pattern) /\ IsCharPrefix(pattern, text)))
    /\ nav.starts_with_path # None =>
           (nav.starts_with_path[1] <=> IsCharPrefix(pattern, text))
    /\ (nav.matches_path # None /\ nav.starts_with_path # None) =>
           (nav.matches_path[1] => nav.starts_with_path[1])

\* C5 witness: a proper prefix: it starts the text and does not match it.
C5_Witness ==
    /\ text = <<"1", "*", "2">>
    /\ pattern = <<"1", "*">>
    /\ nav.matches_path = Some(FALSE)
    /\ nav.starts_with_path = Some(TRUE)

\* The segments joined with '*'.
RECURSIVE JoinStar(_)
JoinStar(segs) ==
    IF segs = <<>> THEN <<>>
    ELSE IF Len(segs) = 1 THEN segs[1]
    ELSE segs[1] \o <<"*">> \o JoinStar(Tail(segs))

\* C6: navigation_path() is empty for the empty text and otherwise the full
\* split on '*': one segment more than there are delimiters, no segment
\* holding a delimiter, and the segments joined with '*' are the text, so
\* leading, trailing and consecutive delimiters each give an empty segment.
C6_NavigationPathIsFullSplit ==
    nav.navigation_path # None =>
        LET path == nav.navigation_path[1]
        IN  IF text = <<>> THEN path = <<>>
            ELSE /\ Len(path) = Cardinality(Stars(text)) + 1
                 /\ \A k \in 1..Len(path) : Stars(path[k]) = {}
                 /\ JoinStar(path) = text

\* C6 witness: "**", whose three segments are all empty.
C6_Witness ==
    /\ text = <<"*", "*">>
    /\ nav.navigation_path = Some(<< <<>>, <<>>, <<>> >>)

\* C7: every response satisfies exactly one of is_continuing() and
\* is_ending(), and message() is the message it was constructed with,
\* without the CON/END prefix, whichever constructor built it.
C7_ExactlyOneTagAndMessage ==
    response # None =>
        /\ is_continuing(response[1]) # is_ending(response[1])
        /\ message(response[1]) = ctor.msg
        /\ is_continuing(response[1]) <=> ctor.how \in {"continues", "build_continue"}

\* C7 witness: a response built by build_continue from a menu with options.
C7_Witness ==
    /\ ctor.how = "build_continue"
    /\ ctor.log.added # <<>>
    /\ response # None
    /\ is_continuing(response[1])
    /\ ~is_ending(response[1])

\* C8: from_code maps each of the 30 listed codes to a known variant of its
\* own, whose name and country are not the placeholders, and every other
\* string c to Unknown(c), whose name is "Unknown Network" and whose country
\* is "Unknown".
C8_FromCodeTotalAndExplicit ==
    /\ Cardinality(ListedCodes) = 30
    /\ network # None =>
           LET n == network[1]
           IN  IF code \in ListedCodes
               THEN /\ n.variant # "Unknown"
                    /\ \A d \in ListedCodes \ {code} : from_code(d) # n
                    /\ netinfo.name # None => netinfo.name[1] # "Unknown Network"
                    /\ netinfo.country # None => netinfo.country[1] # "Unknown"
               ELSE /\ n = [variant |-> "Unknown", code |-> code]
                    /\ netinfo.name # None => netinfo.name[1] = "Unknown Network"
                    /\ netinfo.country # None => netinfo.country[1] = "Unknown"

\* C8 witness: the unlisted code "00000", parsed and asked for its name and
\* country.
C8_Witness ==
    /\ code = "00000"
    /\ network = Some([variant |-> "Unknown", code |-> "00000"])
    /\ netinfo = [name |-> Some("Unknown Network"), country |-> Some("Unknown")]

\* C9: an interaction for a session_id without an entry in the store is
\* handled as phase Initial with an empty field map: whatever the request
\* text, it stores an entry with phase CollectingName and an empty field
\* map, and returns the Continue prompt for the recipient's name.
C9_FirstTouchCreatesSession ==
    (last.session_id # "" /\ last.before = None) =>
        /\ last.phase = "Initial"
        /\ sessions[last.session_id] =
               Some([state |-> "CollectingName", data |-> EmptyMap])
        /\ last.response # None
        /\ is_continuing(last.response[1])
        /\ message(last.response[1]) =
               <<"Welcome to Money Transfer\n\nPlease enter recipient's name:">>

\* C9 witness: a first interaction whose text is not the empty first
\* request but "1*2".
C9_Witness ==
    /\ last.session_id = "s1"
    /\ last.before = None
    /\ ~last.initial
    /\ last.input = Some(<<"2">>)
    /\ sessions["s1"] = Some([state |-> "CollectingName", data |-> EmptyMap])

\* A name of whitespace only, and an amount that is no number or is outside
\* (0, 100000]: what the validators of the two collecting phases reject.
BlankName(s) == \A i \in 1..Len(s) : s[i] \in Whitespace
BadAmount(s) ==
    \/ ~ParseF64(s).ok
    \/ ~(F64GtZero(ParseF64(s)) /\ F64LeCeiling(ParseF64(s)))

C10_Rejected ==
    /\ last.session_id # ""
    /\ last.input # None
    /\ \/ last.phase = "CollectingName" /\ BlankName(last.input[1])
       \/ last.phase = "CollectingAmount" /\ BadAmount(last.input[1])

\* What the handler would do next with a valid submission for the phase the
\* session is stored in.
C10_ValidNext ==
    LET session == get_session(sessions, last.session_id)
        valid == IF session.state = "CollectingName" THEN <<"a", "b", "c">>
                 ELSE <<"5", "0", "0">>
    IN  Dispatch(session, [session_id |-> last.session_id, text |-> valid],
                 last.now)

\* C10: when the validator of the current phase rejects the current input
\* (a blank name; an amount such as "-5" or "abc"), the handler returns a
\* Continue response and the session's stored phase and field map are what
\* they were before the interaction.  As this holds of every rejected
\* interaction it holds of any number of them in a row, and in the state
\* they leave a valid submission is accepted: it is written with the next
\* phase.
C10_RejectionKeepsSession ==
    C10_Rejected =>
        /\ last.response # None
        /\ is_continuing(last.response[1])
        /\ last.before # None
        /\ sessions[last.session_id] = last.before
        /\ C10_ValidNext.write # None
        /\ C10_ValidNext.write[1].op = "update_session"
        /\ C10_ValidNext.write[1].data.state =
               (IF last.phase = "CollectingName" THEN "CollectingAmount"
                ELSE "Confirming")
        /\ ~C10_ValidNext.panicked

\* C10 witness: "-5" submitted as the amount of a session that holds a
\* recipient name.
C10_Witness ==
    /\ C10_Rejected
    /\ last.phase = "CollectingAmount"
    /\ last.input = Some(<<"-", "5">>)
    /\ sessions[last.session_id] =
           Some([state |-> "CollectingAmount",
                 data |-> MapInsert(EmptyMap, "recipient_name", <<"a", "b", "c">>)])

\* Whether sub occurs in s as a run of consecutive elements.
Contains(s, sub) ==
    \E i \in 1..(Len(s) - Len(sub) + 1) : SubSeq(s, i, i + Len(sub) - 1) = sub

\* A decimal numeral with at most two fraction digits, written with exactly
\* two.
TwoDecimals(s) ==
    IF \E i \in 1..Len(s) : s[i] = "."
    THEN LET dot == CHOOSE i \in 1..Len(s) : s[i] = "."
         IN  s \o [k \in 1..(2 - (Len(s) - dot)) |-> "0"]
    ELSE s \o <<".", "0", "0">>

C11_Accepted ==
    /\ last.session_id # ""
    /\ last.input # None
    /\ \/ last.phase = "CollectingName" /\ ~BlankName(last.input[1])
       \/ last.phase = "CollectingAmount" /\ ~BadAmount(last.input[1])

C11_Field == IF last.phase = "CollectingName" THEN "recipient_name" ELSE "amount"

\* C11: when the validator of the current phase accepts the current input,
\* the handler writes that field into the session's map, stores the next
\* phase (CollectingName -> CollectingAmount -> Confirming), leaves the
\* fields collected before as they were and returns a Continue response; on
\* entering Confirming the response is the confirmation menu, whose text
\* embeds the recipient name collected before and the accepted amount.
C11_AcceptedInputAdvances ==
    C11_Accepted =>
        /\ last.before # None
        /\ sessions[last.session_id] # None
        /\ sessions[last.session_id][1].state =
               (IF last.phase = "CollectingName" THEN "CollectingAmount"
                ELSE "Confirming")
        /\ DOMAIN sessions[last.session_id][1].data =
               (DOMAIN last.before[1].data) \cup {C11_Field}
        /\ sessions[last.session_id][1].data[C11_Field] = last.input[1]
        /\ \A k \in (DOMAIN last.before[1].data) \ {C11_Field} :
               sessions[last.session_id][1].data[k] = last.before[1].data[k]
        /\ last.response # None
        /\ is_continuing(last.response[1])
        /\ last.phase = "CollectingAmount" =>
               /\ "recipient_name" \in DOMAIN last.before[1].data
               /\ Contains(message(last.response[1]),
                           <<"Confirm transfer:\n\nRecipient: ">>
                           \o last.before[1].data["recipient_name"]
                           \o <<"\nAmount: KES ">>)
               /\ Contains(message(last.response[1]),
                           <<"\nAmount: KES ">> \o TwoDecimals(last.input[1])
                           \o <<"\n\nConfirm?">>)
               /\ Contains(message(last.response[1]),
                           MenuLines(<<[key |-> <<"1">>, label |-> <<"Yes, send money">>],
                                       [key |-> <<"2">>, label |-> <<"Cancel">>]>>))

\* C11 witness: the amount "0.5" accepted for a session that holds the
\* recipient name "abc"; the stored entry is in Confirming with both fields.
C11_Witness ==
    /\ C11_Accepted
    /\ last.phase = "CollectingAmount"
    /\ last.input = Some(<<"0", ".", "5">>)
    /\ sessions[last.session_id] =
           Some([state |-> "Confirming",
                 data |-> MapInsert(MapInsert(EmptyMap, "recipient_name", <<"a", "b", "c">>),
                                    "amount", <<"0", ".", "5">>)])

\* The decimal text of the timestamps explored.
TimestampText(now) ==
    CASE now = 1700000000 -> <<"1", "7", "0", "0", "0", "0", "0", "0", "0", "0">>
      [] now = 1700000001 -> <<"1", "7", "0", "0", "0", "0", "0", "0", "0", "1">>

C12_Confirmed ==
    /\ last.session_id # ""
    /\ last.phase = "Confirming"
    /\ last.input = Some(<<"1">>)

\* C12: an interaction whose current input is the confirm choice "1", for a
\* session stored in Confirming, removes the session's entry from the store
\* and returns the End success response, which embeds the collected amount,
\* the collected recipient name and a generated transaction identifier
\* ("TXN" and the time of the request).
C12_ConfirmCompletes ==
    C12_Confirmed =>
        /\ last.before # None
        /\ sessions[last.session_id] = None
        /\ last.response # None
        /\ is_ending(last.response[1])
        /\ message(last.response[1]) =
               <<"Success!\n\nSent KES ">>
               \o TwoDecimals(last.before[1].data["amount"])
               \o <<" to ">> \o last.before[1].data["recipient_name"]
               \o <<"\n\nTransaction ID: TXN">> \o TimestampText(last.now)

\* C12 witness: KES 500 to "abc" confirmed at 1700000001; the entry is gone.
C12_Witness ==
    /\ C12_Confirmed
    /\ last.now = 1700000001
    /\ last.before =
           Some([state |-> "Confirming",
                 data |-> MapInsert(MapInsert(EmptyMap, "recipient_name", <<"a", "b", "c">>),
                                    "amount", <<"5", "0", "0">>)])
    /\ sessions[last.session_id] = None
    /\ last.body = Some(EndPrefix
                        \o <<"Success!\n\nSent KES ", "5", "0", "0", ".", "0", "0",
                             " to ", "a", "b", "c", "\n\nTransaction ID: TXN">>
                        \o TimestampText(1700000001))

C13_Cancelled ==
    /\ last.session_id # ""
    /\ last.phase = "Confirming"
    /\ last.input = Some(<<"2">>)

\* C13: an interaction whose current input is the cancel choice "2", for a
\* session stored in Confirming, removes the session's entry from the store
\* and returns the End cancellation response; no success response is
\* produced.
C13_CancelAborts ==
    C13_Cancelled =>
        /\ last.before # None
        /\ sessions[last.session_id] = None
        /\ last.ops = <<"get_session", "clear_session">>
        /\ last.response # None
        /\ is_ending(last.response[1])
        /\ message(last.response[1]) = <<"Transaction cancelled.">>
        /\ ~Contains(message(last.response[1]), <<"Success!\n\nSent KES ">>)

\* C13 witness: a transfer of KES 0.5 to "1" cancelled.
C13_Witness ==
    /\ C13_Cancelled
    /\ last.before =
           Some([state |-> "Confirming",
                 data |-> MapInsert(MapInsert(EmptyMap, "recipient_name", <<"1">>),
                                    "amount", <<"0", ".", "5">>)])
    /\ sessions[last.session_id] = None
    /\ last.body = Some(EndPrefix \o <<"Transaction cancelled.">>)

\* C14: an interaction for a session stored in Confirming whose current
\* input is anything other than the confirm or the cancel choice removes the
\* session's entry from the store and returns the End invalid-option
\* response: the transaction is aborted, not left pending.
C14_OtherChoiceAborts ==
    (/\ last.session_id # ""
     /\ last.phase = "Confirming"
     /\ last.input # None
     /\ last.input \notin {Some(<<"1">>), Some(<<"2">>)}) =>
        /\ last.response # None
        /\ is_ending(last.response[1])
        /\ message(last.response[1]) = <<"Invalid option. Transaction cancelled.">>
        /\ sessions[last.session_id] = None

\* C15: after a session stored in Confirming has been confirmed, every
\* subsequent interaction with the same session_id returns the End "already
\* completed" response, and the flow is never resumed from Initial.  Stated
\* of the first such interaction: the one served right after the confirm.
C15_CompletedIsTerminal ==
    [][(/\ C12_Confirmed
        /\ last.response # None
        /\ is_ending(last.response[1])
        /\ last'.session_id = last.session_id) =>
           /\ last'.phase # "Initial"
           /\ last'.response = Some(ends(<<"Session already completed.">>))]_vars

\* How many store mutations (update_session writes, clear_session deletes)
\* the interaction just served performed.
StoreMutations ==
    Cardinality({i \in DOMAIN last.ops :
                     last.ops[i] \in {"update_session", "clear_session"}})

\* C16 as the specification states it: every interaction performs exactly
\* one store mutation (one update_session write or one clear_session
\* delete), except an interaction for a session whose stored phase is
\* Complete, which performs none.
C16_ExactlyOneMutation ==
    last.session_id # "" =>
        StoreMutations = (IF last.phase = "Complete" THEN 0 ELSE 1)

\* C16: every interaction performs at most one store mutation.  It performs
\* exactly one when the session is handled as Initial, when the validator of
\* a collecting phase accepts the input, and on the confirm and the cancel
\* choice in Confirming; it performs none when a validator rejects the
\* input, and none for a session whose phase is Complete.  Without a
\* mutation the entry is what it was.
C16_AtMostOneMutation ==
    last.session_id # "" =>
        /\ StoreMutations <= 1
        /\ (last.phase = "Initial" \/ C11_Accepted \/ C12_Confirmed \/ C13_Cancelled)
               => StoreMutations = 1
        /\ C10_Rejected => StoreMutations = 0
        /\ StoreMutations = 0 => sessions[last.session_id] = last.before
        /\ Dispatch([state |-> "Complete",
                      data |-> get_session(sessions, last.session_id).data],
                     [session_id |-> last.session_id, text |-> <<"1">>],
                     last.now).write = None

\* C16 witness: "abc" rejected as an amount; get_session is the only call
\* made on the store.
C16_Witness ==
    /\ C10_Rejected
    /\ last.phase = "CollectingAmount"
    /\ last.input = Some(<<"a", "b", "c">>)
    /\ last.ops = <<"get_session">>
    /\ StoreMutations = 0

C18_EndLeavesNoEntry ==
    (/\ last.session_id # ""
     /\ last.response # None
     /\ is_ending(last.response[1])) =>
        sessions[last.session_id] = None

\* The amounts explored, by what they are: numbers in (0, 100000], numbers
\* outside it, and texts that are no number.
AmountsInRange ==
    {<<"1">>, <<"2">>, <<"0", ".", "5">>, <<"5", "0", "0">>,
     <<"1", "0", "0", "0", "0", "0">>}
AmountsOutOfRange == {<<"-", "5">>, <<"0">>, <<"1", "0", "0", "0", "0", "1">>}
NotAmounts == {<<>>, <<" ">>, <<"a", "b", "c">>}

C19_AmountSubmitted ==
    /\ last.session_id # ""
    /\ last.phase = "CollectingAmount"
    /\ last.input # None

\* C19: in phase CollectingAmount an amount is accepted if and only if it
\* parses as a number strictly greater than 0 and at most 100000 (0 and
\* 100001 are refused, 0.5 and 100000 are accepted); a numeric amount out of
\* range and a text that is no number are each answered with a Continue
\* re-prompt, the two messages differ, and neither ends the session.
C19_AmountRange ==
    C19_AmountSubmitted =>
        /\ last.input[1] \in AmountsInRange \cup AmountsOutOfRange \cup NotAmounts
        /\ last.input[1] \in AmountsInRange <=>
               /\ last.ops = <<"get_session", "update_session">>
               /\ sessions[last.session_id] # None
               /\ sessions[last.session_id][1].state = "Confirming"
        /\ last.response # None
        /\ is_continuing(last.response[1])
        /\ last.input[1] \in AmountsOutOfRange =>
               /\ message(last.response[1]) =
                      <<"Amount must be between 1 and 100,000.\nEnter amount:">>
               /\ sessions[last.session_id] = last.before
        /\ last.input[1] \in NotAmounts =>
               /\ message(last.response[1]) = <<"Invalid amount.\nEnter amount (KES):">>
               /\ sessions[last.session_id] = last.before
        /\ sessions[last.session_id] # None

\* C19 witness: 100001, one above the ceiling, answered with the range
\* re-prompt while the session stays in CollectingAmount.
C19_Witness ==
    /\ C19_AmountSubmitted
    /\ last.input = Some(<<"1", "0", "0", "0", "0", "1">>)
    /\ last.body = Some(ConPrefix \o <<"Amount must be between 1 and 100,000.\nEnter amount:">>)
    /\ sessions[last.session_id] # None
    /\ sessions[last.session_id][1].state = "CollectingAmount"

\* The texts of the typical flow of test_typical_flow_scenario, and the same
\* flow with the confirm choice as its last input.
TypicalTexts ==
    << <<>>, <<"1">>, <<"1", "*", "2">>, <<"1", "*", "2", "*", "5", "0", "0">> >>
ConfirmedTexts ==
    << <<>>, <<"1">>, <<"1", "*", "2">>, <<"1", "*", "2", "*", "1">> >>

\* The dialog so far is the first requests of the flow `texts`.
Follows(texts) ==
    /\ dialog.texts # <<>>
    /\ Len(dialog.texts) <= Len(texts)
    /\ dialog.texts = SubSeq(texts, 1, Len(dialog.texts))

\* The replies to the first three requests: the initial prompt, the prompt
\* for the next field, and the confirmation menu with both collected values
\* (recipient "1", amount 2).
C20_FirstThree ==
    /\ dialog.replies[1] =
           Some(continues(<<"Welcome to Money Transfer\n\nPlease enter recipient's name:">>))
    /\ Len(dialog.texts) >= 2 =>
           dialog.replies[2] = Some(continues(<<"Enter amount to send (KES):">>))
    /\ Len(dialog.texts) >= 3 =>
           /\ dialog.replies[3] # None
           /\ is_continuing(dialog.replies[3][1])
           /\ message(dialog.replies[3][1]) =
                  <<"Confirm transfer:\n\nRecipient: ", "1", "\nAmount: KES ",
                    "2", ".", "0", "0", "\n\nConfirm?">>
                  \o MenuLines(<<[key |-> <<"1">>, label |-> <<"Yes, send money">>],
                                 [key |-> <<"2">>, label |-> <<"Cancel">>]>>)

\* The reply is the End success response with a generated reference.
IsSuccess(reply) ==
    /\ reply # None
    /\ is_ending(reply[1])
    /\ Contains(message(reply[1]), <<"Success!\n\nSent KES ", "2", ".", "0", "0", " to ", "1">>)
    /\ \E now \in Timestamps :
           Contains(message(reply[1]),
                    <<"\n\nTransaction ID: TXN">> \o TimestampText(now))

\* C20 as the specification states it: starting from an empty store, the
\* interactions of one session_id with the texts "", "1", "1*2", "1*2*500",
\* in that order, are answered with the Continue initial prompt, the
\* Continue prompt for the next field, the Continue confirmation menu that
\* embeds both collected values and, for the fourth, the End success
\* response that contains a generated reference.
C20_TypicalFlowSucceeds ==
    Follows(TypicalTexts) =>
        /\ C20_FirstThree
        /\ Len(dialog.texts) = 4 => IsSuccess(dialog.replies[4])

\* C20: starting from an empty store, the interactions of one session_id
\* with the texts "", "1", "1*2", in that order, are answered with the
\* Continue initial prompt, the Continue prompt for the next field and the
\* Continue confirmation menu that embeds both collected values; a fourth
\* interaction whose current input is the confirm choice (text "1*2*1") is
\* answered with the End success response that contains a generated
\* reference and removes the entry, while the fourth text "1*2*500" is
\* answered with the End invalid-option response.
C20_TypicalFlowConfirmed ==
    /\ Follows(ConfirmedTexts) =>
           /\ C20_FirstThree
           /\ Len(dialog.texts) = 4 =>
                  /\ IsSuccess(dialog.replies[4])
                  /\ sessions[DialogSession] = None
    /\ Follows(TypicalTexts) =>
           /\ C20_FirstThree
           /\ Len(dialog.texts) = 4 =>
                  dialog.replies[4] =
                      Some(ends(<<"Invalid option. Transaction cancelled.">>))

\* C20 witness: the four requests "", "1", "1*2", "1*2*1" served, the last
\* one answered with the success response.
C20_Witness ==
    /\ dialog.texts = ConfirmedTexts
    /\ Len(dialog.replies) = 4
    /\ IsSuccess(dialog.replies[4])
    /\ sessions[DialogSession] = None

\* C26: in every store state reached from the empty store by interactions
\* that do not overlap, a stored session in phase CollectingAmount has the
\* field recipient_name, and a stored session in phase Confirming has both
\* recipient_name and amount, amount holding a text that parses as a number;
\* hence no unwrap() of the CollectingAmount and Confirming arms panics.
C26_FieldsPresentForUnwrap ==
    /\ \A id \in DOMAIN sessions :
           sessions[id] # None =>
               /\ sessions[id][1].state = "CollectingAmount" =>
                      "recipient_name" \in DOMAIN sessions[id][1].data
               /\ sessions[id][1].state = "Confirming" =>
                      /\ {"recipient_name", "amount"} \subseteq DOMAIN sessions[id][1].data
                      /\ ParseF64(sessions[id][1].data["amount"]).ok
    /\ last.session_id # "" =>
           /\ ~last.panicked
           /\ last.response # None

\* C26 witness: the amount 100000 accepted, after the unwrap() of
\* recipient_name at line 135; the stored entry is in Confirming with both
\* fields.
C26_Witness ==
    /\ last.session_id = "s1"
    /\ last.phase = "CollectingAmount"
    /\ last.input = Some(<<"1", "0", "0", "0", "0", "0">>)
    /\ ~last.panicked
    /\ sessions["s1"] # None
    /\ sessions["s1"][1].state = "Confirming"
    /\ sessions["s1"][1].data["amount"] = <<"1", "0", "0", "0", "0", "0">>
    /\ "recipient_name" \in DOMAIN sessions["s1"][1].data

\* C27: in every store state reached from the empty store, every stored
\* session has phase CollectingName, CollectingAmount or Confirming: the
\* handler never writes an entry with phase Initial or Complete, so the arm
\* FlowState::Complete and its "Session already completed." response are
\* never reached.
C27_StoredPhases ==
    /\ \A id \in DOMAIN sessions :
           sessions[id] # None =>
               sessions[id][1].state \in {"CollectingName", "CollectingAmount", "Confirming"}
    /\ last.session_id # "" =>
           /\ last.phase # "Complete"
           /\ last.response # Some(ends(<<"Session already completed.">>))
           /\ last.before = None <=> last.phase = "Initial"

\* C27 witness: the choice "500" refused in Confirming; the session is
\* ended, yet its entry stays in Confirming and is not marked Complete.
C27_Witness ==
    /\ last.session_id = "s1"
    /\ last.phase = "Confirming"
    /\ last.input = Some(<<"5", "0", "0">>)
    /\ last.response = Some(ends(<<"Invalid option. Transaction cancelled.">>))
    /\ sessions["s1"] # None
    /\ sessions["s1"][1].state = "Confirming"

\* The place of a stored phase in the flow.
PhaseRank(state) ==
    CASE state = "Initial" -> 0
      [] state = "CollectingName" -> 1
      [] state = "CollectingAmount" -> 2
      [] state = "Confirming" -> 3
      [] state = "Complete" -> 4

C28_EntryKept ==
    /\ last.session_id # ""
    /\ last.before # None
    /\ sessions[last.session_id] # None

\* C28: for each session_id, while its entry remains in the store, the
\* stored phase only moves forward and by at most one step per interaction
\* (CollectingName, then CollectingAmount, then Confirming): no interaction
\* moves a stored session to an earlier phase or skips a phase, and a field
\* once written to the field map is never removed or overwritten until the
\* entry is deleted.
C28_PhaseMovesForwardByOne ==
    C28_EntryKept =>
        /\ PhaseRank(sessions[last.session_id][1].state)
               - PhaseRank(last.before[1].state) \in {0, 1}
        /\ \A k \in DOMAIN last.before[1].data :
               /\ k \in DOMAIN sessions[last.session_id][1].data
               /\ sessions[last.session_id][1].data[k] = last.before[1].data[k]

\* C28 witness: the name "2" accepted for a session stored in
\* CollectingName; the entry moves one step, to CollectingAmount.
C28_Witness ==
    /\ C28_EntryKept
    /\ last.before = Some([state |-> "CollectingName", data |-> EmptyMap])
    /\ sessions[last.session_id] =
           Some([state |-> "CollectingAmount",
                 data |-> MapInsert(EmptyMap, "recipient_name", <<"2">>)])

\* The pattern is made of whole path segments: it is not empty and none of
\* its segments is.
WholeSegments(p) ==
    /\ p # <<>>
    /\ \A k \in 1..Len(navigation_path(p)) : navigation_path(p)[k] # <<>>

\* The path `branch` is the beginning of the path `path`.
PathBegins(branch, path) ==
    /\ Len(branch) <= Len(path)
    /\ \A k \in 1..Len(branch) : path[k] = branch[k]

C23_Called ==
    /\ nav.starts_with_path # None
    /\ WholeSegments(pattern)

\* C23 as the specification states it: for a pattern p made of whole path
\* segments (such as "1"), starts_with_path(p) is true only for requests
\* whose navigation path begins with the segments of p, that is only for
\* requests under that branch of the menu tree.
C23_OnlyUnderBranch ==
    C23_Called =>
        (nav.starts_with_path[1] =>
             PathBegins(navigation_path(pattern), navigation_path(text)))

\* C23: for a pattern p made of whole path segments, starts_with_path(p) is
\* true for every request whose navigation path begins with the segments of
\* p; being a prefix test on the raw text, it is true exactly when the path
\* begins with the segments of p but the last, and the segment at the place
\* of p's last segment begins with it.  So starts_with_path("1") selects the
\* requests under branch 1 and also those whose first segment only begins
\* with "1", such as "12".
C23_SubtreeAndSegmentPrefix ==
    C23_Called =>
        LET branch == navigation_path(pattern)
            path == navigation_path(text)
            n == Len(branch)
        IN  /\ PathBegins(branch, path) => nav.starts_with_path[1]
            /\ nav.starts_with_path[1] <=>
                   /\ n <= Len(path)
                   /\ PathBegins(SubSeq(branch, 1, n - 1), path)
                   /\ IsCharPrefix(branch[n], path[n])

\* C23 witness: starts_with_path("1") called on the text "12", whose only
\* segment is "12": it answers true.
C23_Witness ==
    /\ text = <<"1", "2">>
    /\ pattern = <<"1">>
    /\ nav.starts_with_path = Some(TRUE)

\* The inputs appended to a text: without '*', the empty one included.
AppendedInputs == SeqsUpTo(TextChars \ {"*"}, 2)

\* C30: for every request text the derived navigation values agree:
\* navigation_path().len() equals depth(); the last element of
\* navigation_path() equals current_input(), both absent for the empty
\* text; joining navigation_path() with '*' gives the text back; and
\* appending "*x" (x without '*') to a non-empty text increases depth() by
\* exactly 1 and makes current_input() equal Some(x).
C30_NavigationValuesAgree ==
    /\ (nav.navigation_path # None /\ nav.depth # None) =>
           Len(nav.navigation_path[1]) = nav.depth[1]
    /\ (nav.navigation_path # None /\ nav.current_input # None) =>
           IF text = <<>>
           THEN nav.navigation_path[1] = <<>> /\ nav.current_input[1] = None
           ELSE /\ nav.navigation_path[1] # <<>>
                /\ nav.current_input[1] =
                       Some(nav.navigation_path[1][Len(nav.navigation_path[1])])
    /\ nav.navigation_path # None => JoinStar(nav.navigation_path[1]) = text
    /\ (nav.depth # None /\ nav.current_input # None /\ text # <<>>) =>
           \A x \in AppendedInputs :
               /\ depth(text \o <<"*">> \o x) = nav.depth[1] + 1
               /\ current_input(text \o <<"*">> \o x) = Some(x)
               /\ nav.current_input[1] # None

\* C30 witness: the three helpers called on "1*", whose path is "1" and the
\* empty segment.
C30_Witness ==
    /\ text = <<"1", "*">>
    /\ nav.depth = Some(2)
    /\ nav.current_input = Some(Some(<<>>))
    /\ nav.navigation_path = Some(<< <<"1">>, <<>> >>)

\* The texts route_ussd_request has a handler for.
HandledTexts ==
    {<<>>, <<"1">>, <<"2">>, <<"3">>, <<"1", "*", "1">>, <<"1", "*", "2">>}

\* C22: in the stateless router route_ussd_request every request yields
\* exactly one response; an accumulated text with no defined handler
\* (anything other than "", "1", "2", "3", "1*1", "1*2") yields the End
\* response "Invalid option. Please try again." and never a Continue or an
\* error; Continue is returned only for the texts "" and "1".
C22_EveryRequestAnswered ==
    router.reply # None =>
        /\ ~router.reply[1].panicked
        /\ router.reply[1].response # None
        /\ text \notin HandledTexts =>
               router.reply[1].response =
                   Some(ends(<<"Invalid option. Please try again.">>))
        /\ is_continuing(router.reply[1].response[1]) => text \in {<<>>, <<"1">>}

\* The errors the retry logic is to retry: transport errors, timeouts and
\* rate limits.
RetryableErrors == {"Http", "Timeout", "RateLimit"}

\* The waits before the first n retries: 1000 * k milliseconds before the
\* k-th.
RetryWaits(n) == [k \in 1..n |-> 1000 * k]

C24_Bounded ==
    client.pc \in {"loop", "returned"} =>
        /\ client.calls = Len(client.made)
        /\ client.max_retries # U32Max => client.calls <= client.max_retries + 1
        /\ \A i \in 1..Len(client.made) :
               (client.made[i].ok \/ client.made[i].error \notin RetryableErrors) =>
                   /\ i = Len(client.made)
                   /\ client.pc = "returned"
        /\ (client.max_retries # U32Max /\ client.calls = client.max_retries + 1) =>
               client.pc = "returned"
        /\ client.pc = "returned" =>
               /\ client.made # <<>>
               /\ client.result # None
               /\ ~client.made[Len(client.made)].ok =>
                      client.result[1] = Err(client.made[Len(client.made)].error)
               /\ client.made[Len(client.made)].ok =>
                      client.result[1] = handle_response(client.made[Len(client.made)].response)
               /\ client.waits = RetryWaits(client.calls - 1)
        /\ client.pc = "loop" =>
               /\ client.result = None
               /\ client.waits = RetryWaits(client.calls)

C24_Ended == client.pc \in {"returned", "panicked"}

\* C24: AfricasTalkingClient::request always terminates, after at most
\* max_retries + 1 calls of make_request: it returns as soon as one attempt
\* yields a response; it returns the error at once, without a further
\* attempt, when the error is not retryable; after the (max_retries + 1)-th
\* failed attempt it returns that last error; and before the k-th retry it
\* waits 1000 * k milliseconds.
C24_RequestTerminates == []C24_Bounded /\ <>C24_Ended

\* C24 witness: with max_retries = 3 all four attempts fail with Http; the
\* call waited 1000, 2000 and 3000 ms and returns the last error.
C24_Witness ==
    /\ client.pc = "returned"
    /\ client.max_retries = 3
    /\ client.calls = 4
    /\ client.waits = <<1000, 2000, 3000>>
    /\ client.result = Some(Err("Http"))

\* C25: the retry logic retries every failure that is_retryable() classes
\* as retryable (Http, Timeout, RateLimit) while attempts remain; so a
\* request answered with HTTP 429 is attempted again, up to max_retries + 1
\* attempts in total, before RateLimit is returned to the caller.
C25_RetryableIsRetried ==
    (/\ client.pc = "returned"
     /\ client.max_retries # U32Max
     /\ client.result # None
     /\ ~client.result[1].ok
     /\ client.result[1].error \in RetryableErrors) =>
        client.calls = client.max_retries + 1

\* What the request of task t would give if it were handled alone, in one
\* piece, on the entry `stored`.
AloneOutcome(t) == Dispatch(tasks[t].stored, tasks[t].request, tasks[t].now)

C21_AsIfAlone ==
    \A t \in TaskIds :
        /\ (tasks[t].pc = "read" /\ ~tasks[t].overlapped) =>
               tasks[t].session = get_session(sessions, tasks[t].request.session_id)
        /\ (tasks[t].pc = "done" /\ ~tasks[t].overlapped) =>
               /\ tasks[t].session = tasks[t].stored
               /\ tasks[t].response = AloneOutcome(t).response
               /\ tasks[t].left =
                      ApplyWrite([id \in TaskSessionIds |-> Some(tasks[t].stored)],
                                 tasks[t].request.session_id,
                                 AloneOutcome(t).write)[tasks[t].request.session_id]
                  \/ (~tasks[t].wrote /\ AloneOutcome(t).write = None)

C21_OnlyOwnEntry ==
    \A id \in TaskSessionIds :
        sessions'[id] # sessions[id] =>
            \E t \in TaskIds :
                /\ tasks[t].pc = "read"
                /\ tasks'[t].pc = "done"
                /\ tasks[t].request.session_id = id

\* C21: under any interleaving of interactions for different session_ids,
\* an interaction for session A never creates, changes or removes the store
\* entry of another session B, and the response and the resulting entry for
\* A are the same as if A's interactions had run alone; the session map is
\* the only state the interactions share.
C21_SessionsAreIsolated == []C21_AsIfAlone /\ [][C21_OnlyOwnEntry]_vars

\* C21 witness: task t1 holds the copy of s1's entry, in CollectingAmount,
\* while t2 has just stored s2 in Confirming; s1's entry is as t1 read it.
C21_Witness ==
    /\ tasks["t1"].pc = "read"
    /\ tasks["t1"].request.session_id = "s1"
    /\ tasks["t1"].session.state = "CollectingAmount"
    /\ ~tasks["t1"].overlapped
    /\ tasks["t2"].pc = "done"
    /\ tasks["t2"].request.session_id = "s2"
    /\ tasks["t2"].wrote
    /\ sessions["s2"] # None
    /\ sessions["s2"][1].state = "Confirming"
    /\ sessions["s1"] = Some(tasks["t1"].session)

\* The response is the End success response of a confirmed transfer.
IsTransfer(reply) ==
    /\ reply # None
    /\ is_ending(reply[1])
    /\ Contains(message(reply[1]), <<"Success!\n\nSent KES ">>)

\* C29 as the specification states it: if two interactions for the same
\* session_id are processed concurrently, a session that reached Confirming
\* once still yields at most one success response, and a write by one
\* interaction is never overwritten or resurrected by a stale write of the
\* other.
C29_SafeUnderOverlap ==
    /\ \A t, u \in TaskIds :
           (/\ t # u
            /\ tasks[t].pc = "done" /\ tasks[u].pc = "done"
            /\ tasks[t].request.session_id = tasks[u].request.session_id
            /\ tasks[t].overlapped /\ tasks[u].overlapped) =>
               ~(IsTransfer(tasks[t].response) /\ IsTransfer(tasks[u].response))
    /\ \A t \in TaskIds :
           (tasks[t].pc = "done" /\ tasks[t].wrote) =>
               tasks[t].session = tasks[t].stored

\* C29: only when the interactions for a session_id do not overlap, as the
\* gateway guarantees, is a write never stale (it acts on the entry the
\* store holds) and does a success response remove the Confirming entry it
\* was given for, so that the entry yields at most one success.  Processed
\* concurrently, two interactions can both read the Confirming entry and
\* both return success, and a stale write can overwrite or resurrect an
\* entry.
C29_SafeWithoutOverlap ==
    \A t \in TaskIds :
        (tasks[t].pc = "done" /\ ~tasks[t].overlapped) =>
            /\ tasks[t].session = tasks[t].stored
            /\ IsTransfer(tasks[t].response) =>
                   /\ tasks[t].stored.state = "Confirming"
                   /\ tasks[t].wrote
                   /\ tasks[t].left = None

\* C29 witness: a confirm served without overlap: the success response is
\* out and the entry is gone.
C29_Witness ==
    /\ tasks["t1"].pc = "done"
    /\ ~tasks["t1"].overlapped
    /\ IsTransfer(tasks["t1"].response)
    /\ tasks["t1"].left = None
    /\ sessions[tasks["t1"].request.session_id] = None
    /\ tasks["t2"].pc = "idle"

====
